---- MODULE Spec2Model ----
(***************************************************************************)
(* Model of the book-finder chat core: the BookChatbot conversation        *)
(* controller (src/src/components/FilterSidebar.tsx), the useChatDatabase  *)
(* usage/history hook (src/src/hooks/useChatDatabase.ts), the Gemini       *)
(* completion client (src/src/hooks/useUserBooks.ts) and the two store     *)
(* tables (src/unnamed/part_000).                                          *)
(*                                                                         *)
(* React semantics kept by the model: an async handler runs against the    *)
(* values of the render in which it was created, so every activation of    *)
(* initializeChat / handleSendMessage carries a snapshot (closure) of the  *)
(* state it reads; state setters write the live state.  Each await is one  *)
(* step of the activation.                                                 *)
(***************************************************************************)
EXTENDS Integers, Sequences, FiniteSets, TLC

----------------------------------------------------------------------------
(* Program constants *)

DAILY_LIMIT == 10

HISTORY_LIMIT == 20

(* Bounds of the model *)

MaxDay == 2

MaxTurns == 2

MaxOpens == 2

MaxCalls == 3

(* how many parts a reply given to the extraction is made of *)
MaxParts == 2


----------------------------------------------------------------------------
(* Values *)

(* no signed-in user *)
Null == "null"

(* JavaScript values of optional fields, tagged with their type *)
Undefined == [t |-> "undefined"]

NullV == [t |-> "null"]

Num(n) == [t |-> "number", v |-> n]

Str(s) == [t |-> "string", v |-> s]

Arr(a) == [t |-> "array", v |-> a]

Bool(b) == [t |-> "boolean", v |-> b]

(* the truthiness test of `x ? a : b` and `x || y` *)
Truthy(x) ==
  CASE x.t \in {"undefined", "null"} -> FALSE
    [] x.t = "number" -> x.v # 0
    [] x.t = "string" -> x.v # ""
    [] OTHER -> TRUE

Me == "u1"

Stranger == "u2"

----------------------------------------------------------------------------
(* Strings: String.prototype.trim / toLowerCase / includes *)

(* const x = v; F(x): v is evaluated once *)
Bind(v, F(_)) == CHOOSE r \in {F(x) : x \in {v}} : TRUE

(* the characters i..j of s that exist *)
Substr(s, i, j) ==
  IF i > j \/ i > Len(s) \/ j < 1 THEN ""
  ELSE SubSeq(s, IF i < 1 THEN 1 ELSE i, IF j > Len(s) THEN Len(s) ELSE j)

IsSpace(c) == c \in {" ", "\n", "\t"}

Includes(s, sub) ==
  \E str \in {s} : \E searchString \in {sub} :
    \E i \in 1..(Len(str) - Len(searchString) + 1) :
      Substr(str, i, i + Len(searchString) - 1) = searchString

CharAt(s, i) == Substr(s, i, i)

UpperLetters == "ABCDEFGHIJKLMNOPQRSTUVWXYZ"

LowerLetters == "abcdefghijklmnopqrstuvwxyz"

(* [c |-> the character of alphabet `to` at the place c has in `from`] *)
CharMap(from, to) == [c \in {CharAt(from, i) : i \in 1..Len(from)} |->
                        CharAt(to, CHOOSE i \in 1..Len(from) : CharAt(from, i) = c)]

LowerOf == CharMap(UpperLetters, LowerLetters)

UpperOf == CharMap(LowerLetters, UpperLetters)

(* the characters i..j of s mapped one by one (halving keeps the nesting shallow) *)
RECURSIVE MapString(_, _, _, _)
MapString(s, i, j, map) ==
  IF i > j THEN ""
  ELSE IF i = j
  THEN IF CharAt(s, i) \in DOMAIN map THEN map[CharAt(s, i)] ELSE CharAt(s, i)
  ELSE Bind((i + j) \div 2,
            LAMBDA m : MapString(s, i, m, map) \o MapString(s, m + 1, j, map))

ToLowerCase(s) == MapString(s, 1, Len(s), LowerOf)

ToUpperCase(s) == MapString(s, 1, Len(s), UpperOf)

(* the least element of a non-empty set of integers *)
Min(S) == CHOOSE x \in S : \A y \in S : x <= y

(* first index >= i of s holding character c, 0 when there is none *)
IndexOfChar(s, c, i) ==
  LET at == {j \in i..Len(s) : CharAt(s, j) = c}
  IN IF at = {} THEN 0 ELSE Min(at)

(* first index >= i of s holding no white space, Len(s) + 1 when there is none *)
SkipSpaces(s, i) ==
  LET at == {j \in i..Len(s) : ~IsSpace(CharAt(s, j))}
  IN IF at = {} THEN Len(s) + 1 ELSE Min(at)

(* last index of s holding no white space, 0 when there is none *)
LastNonSpace(s) ==
  LET at == {j \in 1..Len(s) : ~IsSpace(CharAt(s, j))}
  IN IF at = {} THEN 0 ELSE CHOOSE x \in at : \A y \in at : y <= x

Trim(s) == Substr(s, SkipSpaces(s, 1), LastNonSpace(s))

----------------------------------------------------------------------------
(* JSON.stringify / JSON.parse of the books field.  The text of a list is  *)
(* modelled by the sequence of the objects it spells out: stringify drops  *)
(* every key whose value is undefined and keeps null, parse gives back     *)
(* what the text holds.                                                    *)

JSONstringifyObject(b) ==
  [k \in {f \in DOMAIN b : b[f] # Undefined} |-> b[k]]

(* a JSON text, held as the value it denotes *)
Json(v) == [t |-> "json", v |-> v]

JSONstringify(books) ==
  Json([i \in DOMAIN books.v |-> JSONstringifyObject(books.v[i])])

JSONparse(text) == Arr(text.v)

(* property read of a JavaScript object: a missing key reads undefined *)
Get(obj, k) == IF k \in DOMAIN obj THEN obj[k] ELSE Undefined

----------------------------------------------------------------------------
(* The store: supabase tables chat_usage and chat_messages *)

VARIABLES
  day,              \* the calendar date of new Date().toISOString()
  clock,            \* Date.now() / NOW(): advances at every reading
  usageTableExists, \* relation chat_usage exists (else error 42P01)
  messagesTableExists,
  chat_usage,       \* set of rows [user_id, date, count]
  chat_messages     \* set of rows [id, user_id, role, content, books, created_at]

(* outcome of one round trip: "ok", an error object with code 42P01, an    *)
(* error object with another code, or a rejected promise                   *)
StoreOutcomes(tableExists) ==
  IF tableExists THEN {"ok", "error", "throw"} ELSE {"42P01", "error", "throw"}

UsageRows(u, d) == {r \in chat_usage : r.user_id = u /\ r.date = d}

(* .select('count').eq(user_id).eq(date).single(): data is the row when    *)
(* exactly one row matches, else data is null and error is set             *)
SelectSingleUsage(u, d) ==
  IF Cardinality(UsageRows(u, d)) = 1
  THEN Num((CHOOSE r \in UsageRows(u, d) : TRUE).count)
  ELSE NullV

(* an insert that resolves no conflict *)
InsertUsage(rows, u, d, c) == rows \cup {[user_id |-> u, date |-> d, count |-> c]}

(* .upsert({user_id, date, count}, {onConflict: 'user_id,date'}) *)
UpsertUsage(rows, u, d, c) ==
  {r \in rows : ~(r.user_id = u /\ r.date = d)}
    \cup {[user_id |-> u, date |-> d, count |-> c]}

RECURSIVE SortByCreatedAt(_)
SortByCreatedAt(rows) ==
  IF rows = {} THEN <<>>
  ELSE LET first == CHOOSE r \in rows : \A q \in rows : r.created_at <= q.created_at
       IN <<first>> \o SortByCreatedAt(rows \ {first})

Limit(s, n) == SubSeq(s, 1, IF Len(s) < n THEN Len(s) ELSE n)

(* .select('*').eq('user_id', id).order('created_at', {ascending: true}).limit(20) *)
SelectMessages(u) ==
  Limit(SortByCreatedAt({r \in chat_messages : r.user_id = u}), HISTORY_LIMIT)

----------------------------------------------------------------------------
(* useChatDatabase: each operation is given the user and the isTableMissing *)
(* of the render that created it (flag), and the outcome o of the round     *)
(* trip.  Result: ret (return value), attempted (a store request was made), *)
(* missing (setIsTableMissing(true) was called), and the new table.         *)

checkDailyUsage(u, flag, o) ==
  IF u = Null \/ flag
  THEN [ret |-> 0, attempted |-> FALSE, missing |-> FALSE]
  ELSE CASE o = "42P01" -> [ret |-> 0, attempted |-> TRUE, missing |-> TRUE]
         [] o = "ok" ->
              LET data == SelectSingleUsage(u, day)
              IN [ret |-> IF Truthy(data) THEN data.v ELSE 0,
                  attempted |-> TRUE, missing |-> FALSE]
         [] OTHER -> [ret |-> 0, attempted |-> TRUE, missing |-> FALSE]

(* updateDailyUsage counting the turn whatever the store answers *)
updateDailyUsageOptimistic(u, flag, o, currentCount) ==
  [ret |-> currentCount + 1, attempted |-> ~(u = Null \/ flag),
   missing |-> ~(u = Null \/ flag) /\ o = "42P01",
   table |-> IF ~(u = Null \/ flag) /\ o = "ok"
             THEN UpsertUsage(chat_usage, u, day, currentCount + 1)
             ELSE chat_usage]

updateDailyUsage(u, flag, o, currentCount) ==
  IF u = Null \/ flag
  THEN [ret |-> currentCount, attempted |-> FALSE, missing |-> FALSE,
        table |-> chat_usage]
  ELSE CASE o = "42P01" -> [ret |-> currentCount, attempted |-> TRUE,
                            missing |-> TRUE, table |-> chat_usage]
         [] o = "ok" -> [ret |-> currentCount + 1, attempted |-> TRUE,
                         missing |-> FALSE,
                         table |-> UpsertUsage(chat_usage, u, day, currentCount + 1)]
         [] o = "error" -> [ret |-> currentCount + 1, attempted |-> TRUE,
                            missing |-> FALSE, table |-> chat_usage]
         [] OTHER -> [ret |-> currentCount, attempted |-> TRUE,
                      missing |-> FALSE, table |-> chat_usage]

RowToMessage(msg) ==
  [id |-> msg.id, role |-> msg.role, content |-> msg.content,
   books |-> IF Truthy(msg.books) THEN JSONparse(msg.books) ELSE Undefined,
   timestamp |-> msg.created_at]

loadChatHistory(u, flag, o) ==
  IF u = Null \/ flag
  THEN [ret |-> <<>>, attempted |-> FALSE, missing |-> FALSE]
  ELSE CASE o = "42P01" -> [ret |-> <<>>, attempted |-> TRUE, missing |-> TRUE]
         [] o = "ok" ->
              LET data == SelectMessages(u)
              IN [ret |-> [i \in DOMAIN data |-> RowToMessage(data[i])],
                  attempted |-> TRUE, missing |-> FALSE]
         [] OTHER -> [ret |-> <<>>, attempted |-> TRUE, missing |-> FALSE]

MessageToRow(u, message) ==
  [id |-> message.id, user_id |-> u, role |-> message.role,
   content |-> message.content,
   books |-> IF Truthy(message.books) THEN JSONstringify(message.books) ELSE NullV,
   created_at |-> clock]

(* insert: id is the primary key, a duplicate id is refused by the store *)
saveChatMessage(u, flag, o, message) ==
  IF u = Null \/ flag
  THEN [attempted |-> FALSE, missing |-> FALSE, table |-> chat_messages]
  ELSE CASE o = "42P01" -> [attempted |-> TRUE, missing |-> TRUE,
                            table |-> chat_messages]
         [] o = "ok" /\ \A r \in chat_messages : r.id # message.id ->
              [attempted |-> TRUE, missing |-> FALSE,
               table |-> chat_messages \cup {MessageToRow(u, message)}]
         [] OTHER -> [attempted |-> TRUE, missing |-> FALSE,
                      table |-> chat_messages]

----------------------------------------------------------------------------
(* Completion client: callGeminiAPI of lib/gemini.  The outcome o of the    *)
(* upstream round trip is [ok |-> TRUE, text |-> t], [ok |-> FALSE,         *)
(* message |-> m] for an SDK error, or "nokey" when no API key is set.      *)
(* Result: [ok |-> TRUE, response |-> t] or [ok |-> FALSE, message |-> m]   *)
(* for the Error it throws.                                                 *)

geminiCall(o) ==
  IF o = [ok |-> FALSE, message |-> "nokey"]
  THEN [ok |-> FALSE,
        message |-> "Gemini API key not configured. Please set VITE_GEMINI_API_KEY in your environment variables."]
  ELSE IF o.ok THEN [ok |-> TRUE, response |-> o.text]
  ELSE IF Includes(o.message, "404") \/ Includes(o.message, "model")
       THEN [ok |-> FALSE,
             message |-> "Model not available. Please check the Gemini API model configuration."]
  ELSE IF Includes(o.message, "API key")
       THEN [ok |-> FALSE,
             message |-> "Invalid API key. Please check your Gemini API key configuration."]
  ELSE IF Includes(o.message, "quota") \/ Includes(o.message, "limit")
       THEN [ok |-> FALSE,
             message |-> "API quota exceeded. Please wait and try again later."]
  ELSE [ok |-> FALSE, message |-> "Failed to get response from AI assistant"]

(* the fallback replies of BookChatbot.callGeminiAPI (emoji left out) *)
FallbackModel == "**Model Updated**: I've updated to use the latest Gemini model (gemini-1.5-flash). Please try your question again!"

FallbackApiKey == "**API Key Issue**: Please check your Gemini API key configuration."

FallbackRateLimit == "**Rate Limit**: You've hit the API rate limit. Please wait a few minutes before trying again."

FallbackConnection == "**Connection Issue**: Please check your internet connection and try again."

FallbackUnavailable == "**AI Service Temporarily Unavailable**: I'm having trouble connecting right now. Please try again in a moment!"

(* BookChatbot.callGeminiAPI: never throws, a failure becomes a fallback reply *)
callGeminiAPI(o) ==
  LET r == geminiCall(o)
  IN IF r.ok THEN [response |-> r.response, failed |-> FALSE]
     ELSE IF Includes(r.message, "Model not available") \/ Includes(r.message, "404")
             \/ Includes(r.message, "model")
          THEN [response |-> FallbackModel, failed |-> TRUE]
     ELSE IF Includes(r.message, "API key")
          THEN [response |-> FallbackApiKey, failed |-> TRUE]
     ELSE IF Includes(r.message, "quota") \/ Includes(r.message, "limit")
          THEN [response |-> FallbackRateLimit, failed |-> TRUE]
     ELSE IF Includes(r.message, "network") \/ Includes(r.message, "fetch")
          THEN [response |-> FallbackConnection, failed |-> TRUE]
     ELSE [response |-> FallbackUnavailable, failed |-> TRUE]

----------------------------------------------------------------------------
(* Extraction engine *)

(* slice(0, n) left out: the whole array *)
SliceAll(a, n) == a

(* Array.prototype.slice(0, n) *)
Slice(a, n) == SubSeq(a, 1, IF Len(a) < n THEN Len(a) ELSE n)

(* shouldExtractBooks comparing the classifier's reply as it came *)
shouldExtractBooksUntrimmed(assistantResponse, userMessage, g) ==
  LET r == geminiCall(g)
  IN IF r.ok
     THEN r.response = "YES"
     ELSE LET lowerResponse == ToLowerCase(assistantResponse)
              lowerMessage == ToLowerCase(userMessage)
          IN \/ Includes(lowerResponse, "recommend")
             \/ Includes(assistantResponse, "**\"")
             \/ Includes(lowerMessage, "books like")

(* shouldExtractBooks: g is the outcome of the classifier round trip *)
shouldExtractBooks(assistantResponse, userMessage, g) ==
  LET r == geminiCall(g)
  IN IF r.ok
     THEN ToUpperCase(Trim(r.response)) = "YES"
     ELSE LET lowerResponse == ToLowerCase(assistantResponse)
              lowerMessage == ToLowerCase(userMessage)
          IN \/ Includes(lowerResponse, "recommend")
             \/ Includes(assistantResponse, "**\"")
             \/ Includes(lowerMessage, "books like")

(* extractBooksWithGemini: on success the reply text is given by what      *)
(* JSON.parse makes of it: Arr(<<strings>>), another JSON value, or        *)
(* [t |-> "unparsable"] when JSON.parse throws                             *)
extractBooksWithGemini(e) ==
  LET r == geminiCall(e)
  IN IF r.ok /\ r.response.t = "array"
     THEN Slice(r.response.v, 3)
     ELSE <<>>

(* Set.prototype.add on a Set kept in insertion order *)
SetAdd(found, x) ==
  IF \E i \in DOMAIN found : found[i] = x THEN found ELSE Append(found, x)

RECURSIVE SetAddAll(_, _)
SetAddAll(found, xs) ==
  IF xs = <<>> THEN found
  ELSE Bind(SetAdd(found, Head(xs)), LAMBDA added : SetAddAll(added, Tail(xs)))

(* one match of /\*\*"([^"]+)"\s+by\s+([^*]+?)\*\*/gi starting exactly at i *)
Pattern1At(text, i) ==
  Bind(IndexOfChar(text, "\"", i + 3), LAMBDA q :
  Bind(SkipSpaces(text, q + 1), LAMBDA p2 :
  Bind(SkipSpaces(text, p2 + 2), LAMBDA p4 :
  Bind(IndexOfChar(text, "*", p4), LAMBDA a :
  Bind(/\ Substr(text, i, i + 2) = "**\""
       /\ q > i + 3
       /\ p2 > q + 1
       /\ p2 + 1 <= Len(text)
       /\ ToLowerCase(Substr(text, p2, p2 + 1)) = "by"
       /\ p4 > p2 + 2, LAMBDA head :
     IF head /\ a > p4 /\ Substr(text, a, a + 1) = "**"
     THEN [ok |-> TRUE, title |-> Substr(text, i + 3, q - 1),
           author |-> Substr(text, p4, a - 1), end |-> a + 1]
     ELSE IF head /\ a = p4 /\ p4 > p2 + 3 /\ Substr(text, a, a + 1) = "**"
     THEN [ok |-> TRUE, title |-> Substr(text, i + 3, q - 1),
           author |-> Substr(text, p4 - 1, p4 - 1), end |-> a + 1]
     ELSE [ok |-> FALSE, title |-> "", author |-> "", end |-> i])))))

(* while ((match = pattern1.exec(text)) !== null): the matches from i on *)
RECURSIVE Pattern1Exec(_, _)
Pattern1Exec(text, i) ==
  Bind(IndexOfChar(text, "*", i), LAMBDA n :
    IF n = 0 THEN <<>>
    ELSE Bind(Pattern1At(text, n), LAMBDA m :
           IF m.ok THEN <<m>> \o Pattern1Exec(text, m.end + 1)
           ELSE Pattern1Exec(text, n + 1)))

(* the pattern fallback with titles of three characters left out *)
RECURSIVE AddPatternMatchesLong(_, _)
AddPatternMatchesLong(found, ms) ==
  IF ms = <<>> THEN found
  ELSE LET title == Trim(Head(ms).title)
           author == Trim(Head(ms).author)
       IN Bind(IF title # "" /\ Len(title) > 3
               THEN SetAdd(found, title \o " " \o author) ELSE found,
               LAMBDA added : AddPatternMatchesLong(added, Tail(ms)))

(* the body of while ((match = pattern1.exec(text)) !== null) *)
RECURSIVE AddPatternMatches(_, _)
AddPatternMatches(found, ms) ==
  IF ms = <<>> THEN found
  ELSE LET title == Trim(Head(ms).title)
           author == Trim(Head(ms).author)
       IN Bind(IF title # "" /\ Len(title) > 2
               THEN SetAdd(found, title \o " " \o author) ELSE found,
               LAMBDA added : AddPatternMatches(added, Tail(ms)))

commonBooks ==
  << [keywords |-> <<"Atomic Habits", "atomic habits">>, search |-> "Atomic Habits James Clear"],
     [keywords |-> <<"The Power of Now">>, search |-> "The Power of Now Eckhart Tolle"],
     [keywords |-> <<"Mindset", "mindset">>, search |-> "Mindset Carol Dweck"],
     [keywords |-> <<"Educated">>, search |-> "Educated Tara Westover"],
     [keywords |-> <<"Sapiens">>, search |-> "Sapiens Yuval Noah Harari"] >>

(* lower is text.toLowerCase() *)
RECURSIVE AddCommonBooks(_, _, _)
AddCommonBooks(found, lower, k) ==
  IF k > Len(commonBooks) THEN found
  ELSE Bind(IF \E j \in DOMAIN commonBooks[k].keywords :
                 Includes(lower, ToLowerCase(commonBooks[k].keywords[j]))
            THEN SetAdd(found, commonBooks[k].search) ELSE found,
            LAMBDA added : AddCommonBooks(added, lower, k + 1))

(* one match of /"([A-Za-z][^"]{5,50})"/g starting exactly at i *)
QuotedAt(text, i) ==
  Bind(IndexOfChar(text, "\"", i + 1), LAMBDA q :
    IF /\ CharAt(text, i) = "\""
       /\ q > 0
       /\ CharAt(text, i + 1) \in DOMAIN LowerOf \cup DOMAIN UpperOf
       /\ q - i - 1 >= 6
       /\ q - i - 1 <= 51
    THEN [ok |-> TRUE, span |-> Substr(text, i + 1, q - 1), end |-> q]
    ELSE [ok |-> FALSE, span |-> "", end |-> i])

RECURSIVE QuotedExec(_, _)
QuotedExec(text, i) ==
  Bind(IndexOfChar(text, "\"", i), LAMBDA n :
    IF n = 0 THEN <<>>
    ELSE Bind(QuotedAt(text, n), LAMBDA m :
           IF m.ok THEN <<m>> \o QuotedExec(text, m.end + 1)
           ELSE QuotedExec(text, n + 1)))

RECURSIVE AddQuoted(_, _)
AddQuoted(found, ms) ==
  IF ms = <<>> THEN found
  ELSE Bind(Trim(Head(ms).span), LAMBDA potentialTitle :
       Bind(IF /\ potentialTitle # ""
               /\ Len(potentialTitle) > 5
               /\ Len(potentialTitle) < 50
               /\ ~Includes(potentialTitle, "?")
               /\ ~Includes(potentialTitle, "!")
               /\ Len(found) < 5
            THEN SetAdd(found, potentialTitle) ELSE found,
            LAMBDA added : AddQuoted(added, Tail(ms))))

(* extractAndSearchBooks, lines 389-441: the candidate Set foundBooks *)
FoundBooks(text, geminiExtractedBooks) ==
  Bind(SetAddAll(<<>>, geminiExtractedBooks), LAMBDA a :
  Bind(Pattern1Exec(text, 1), LAMBDA matches :
  Bind(AddPatternMatches(a, matches), LAMBDA b :
  Bind(ToLowerCase(text), LAMBDA lower :
  Bind(AddCommonBooks(b, lower, 1), LAMBDA c :
  Bind(QuotedExec(text, 1), LAMBDA quoted :
    AddQuoted(c, quoted)))))))

----------------------------------------------------------------------------
(* Catalog client: searchBooksFromOpenLibrary *)

currentYear == 2026

(* a record of the Open Library search response; every field is optional *)
Doc(key, title, cover_i, first_publish_year, edition_count, author_name) ==
  [t |-> "object", key |-> key, title |-> title, cover_i |-> cover_i,
   first_publish_year |-> first_publish_year, edition_count |-> edition_count,
   author_name |-> author_name, subtitle |-> Undefined, subject |-> Undefined,
   number_of_pages_median |-> Undefined, publisher |-> Undefined,
   language |-> Undefined]

DocDeepWork ==
  Doc(Str("/works/OL1W"), Str("Deep Work"), Num(11), Num(currentYear - 10), Num(40),
      Arr(<<"Cal Newport">>))

DocDeepWorkSummary ==
  Doc(Str("/works/OL2W"), Str("Summary of Deep Work"), Num(12), Num(currentYear - 1),
      Num(2), Undefined)

DocDeepWorkOld ==
  Doc(Str("/works/OL3W"), Str("Deep Work (first edition)"), Num(13),
      Num(currentYear - 11), Num(9), Arr(<<"Cal Newport">>))

DocAtomicHabits ==
  Doc(Str("/works/OL4W"), Str("Atomic Habits"), Num(14), Undefined, Num(7),
      Arr(<<"James Clear">>))

DocNoCover ==
  Doc(Str("/works/OL5W"), Str("Dune"), Undefined, Num(currentYear), Num(3),
      Arr(<<"Frank Herbert">>))

DocNoKey ==
  Doc(Undefined, Str("Dune"), Num(16), Num(currentYear), Num(1), Undefined)

(* what the catalog holds for a query *)
OpenLibrary(query) ==
  Bind(ToLowerCase(query), LAMBDA q :
    IF Includes(q, "deep work")
    THEN <<DocDeepWorkOld, DocDeepWork, DocDeepWorkSummary>>
    ELSE IF Includes(q, "atomic habits") THEN <<DocAtomicHabits>>
    ELSE IF Includes(q, "dune") THEN <<DocNoCover, DocNoKey>>
    ELSE <<>>)

(* a rejected promise *)
Throw == [t |-> "throw"]

(* a promise that has not settled yet *)
Pending == [t |-> "pending"]

(* outcome of one fetch(searchUrl) + response.json(): Throw, or data.docs *)
FetchOutcomes(query) == {Throw, Arr(<<>>), Arr(OpenLibrary(query)), Arr(<<NullV>>)}

NumOr0(x) == IF Truthy(x) THEN x.v ELSE 0

(* the comparator of .sort(): > 0 when a goes after b *)
CompareDocs(a, b) ==
  LET aYear == NumOr0(a.first_publish_year)
      bYear == NumOr0(b.first_publish_year)
      aEditions == NumOr0(a.edition_count)
      bEditions == NumOr0(b.edition_count)
  IN IF aYear # bYear THEN bYear - aYear ELSE bEditions - aEditions

(* Array.prototype.sort is stable: insert x behind everything not after it *)
InsertDoc(sorted, x) ==
  LET before == {i \in DOMAIN sorted : CompareDocs(sorted[i], x) > 0}
      k == IF before = {} THEN Len(sorted) + 1
           ELSE CHOOSE i \in before : \A j \in before : i <= j
  IN SubSeq(sorted, 1, k - 1) \o <<x>> \o SubSeq(sorted, k, Len(sorted))

RECURSIVE SortDocs(_)
SortDocs(docs) ==
  IF docs = <<>> THEN <<>>
  ELSE InsertDoc(SortDocs(SubSeq(docs, 1, Len(docs) - 1)), docs[Len(docs)])

(* the .filter() callback *)
KeepDoc(doc) ==
  LET hasImage == Truthy(doc.cover_i)
      publishYear == doc.first_publish_year
      isRecent == ~Truthy(publishYear) \/ publishYear.v >= currentYear - 10
      hasTitle == Truthy(doc.title) /\ Len(doc.title.v) > 2
  IN hasImage /\ isRecent /\ hasTitle

RECURSIVE FilterDocs(_)
FilterDocs(docs) ==
  IF docs = <<>> THEN <<>>
  ELSE (IF KeepDoc(Head(docs)) THEN <<Head(docs)>> ELSE <<>>) \o FilterDocs(Tail(docs))

(* the .map() callback: a catalog record as a Book *)
DocToBook(doc) ==
  [id |-> IF Truthy(doc.key) THEN doc.key
          ELSE Str(doc.title.v \o "-" \o ToString(doc.cover_i.v)),
   title |-> IF Truthy(doc.title) THEN doc.title ELSE Str("Unknown Title"),
   authors |-> IF doc.author_name.t = "array" THEN doc.author_name ELSE Arr(<<>>),
   description |-> IF Truthy(doc.subtitle) THEN doc.subtitle ELSE Str(""),
   cover |-> IF Truthy(doc.cover_i)
             THEN Str("https://covers.openlibrary.org/b/id/" \o ToString(doc.cover_i.v) \o "-L.jpg")
             ELSE NullV,
   coverUrls |-> IF Truthy(doc.cover_i)
                 THEN Arr(<<"https://covers.openlibrary.org/b/id/" \o ToString(doc.cover_i.v) \o "-L.jpg",
                            "https://covers.openlibrary.org/b/id/" \o ToString(doc.cover_i.v) \o "-M.jpg">>)
                 ELSE NullV,
   publishedDate |-> doc.first_publish_year,
   categories |-> IF doc.subject.t = "array"
                  THEN Arr(Slice(doc.subject.v, 3))
                  ELSE Arr(<<>>),
   averageRating |-> Undefined,
   ratingsCount |-> Undefined,
   pageCount |-> doc.number_of_pages_median,
   infoLink |-> IF Truthy(doc.key) THEN Str("https://openlibrary.org" \o doc.key.v) ELSE NullV,
   publisher |-> IF doc.publisher.t = "array" THEN Str(doc.publisher.v[1]) ELSE Undefined,
   language |-> IF doc.language.t = "array" THEN Str(doc.language.v[1]) ELSE Undefined]

(* for (const searchUrl of searchStrategies): the docs of the first fetch  *)
(* that brings any; a fetch that throws is skipped                         *)
RECURSIVE FirstDocs(_, _)
FirstDocs(responses, k) ==
  IF k > Len(responses) THEN <<>>
  ELSE IF responses[k].t = "array" /\ Len(responses[k].v) > 0 THEN responses[k].v
  ELSE FirstDocs(responses, k + 1)

(* searchBooksFromOpenLibrary, the body of its try block: responses are   *)
(* the outcomes of the three search strategies.  Reading a field of a null *)
(* record throws a TypeError.                                              *)
SearchBody(responses) ==
  Bind(FirstDocs(responses, 1), LAMBDA allBooks :
    IF \E i \in DOMAIN allBooks : allBooks[i].t # "object"
    THEN Throw
    ELSE Bind(SortDocs(FilterDocs(allBooks)), LAMBDA filteredBooks :
         Bind(Slice(filteredBooks, 3), LAMBDA top :
           Arr([i \in DOMAIN top |-> DocToBook(top[i])]))))

(* searchBooksFromOpenLibrary without its catch: the error escapes *)
searchBooksFromOpenLibraryUncaught(responses) == SearchBody(responses)

(* searchBooksFromOpenLibrary: catch (error) { return [] } *)
searchBooksFromOpenLibrary(responses) ==
  Bind(SearchBody(responses), LAMBDA r : IF r.t = "throw" THEN Arr(<<>>) ELSE r)

(* the async callback of searchPromises: books.slice(0, 1) *)
SearchPromise(responses) ==
  Bind(searchBooksFromOpenLibrary(responses), LAMBDA books :
    IF books.t = "throw" THEN Throw
    ELSE Arr(Slice(books.v, 1)))

(* Array.from(foundBooks).slice(0, 3) *)
Queries(foundBooks) ==
  Slice(foundBooks, 3)

(* the results pushed from the last search to the first *)
RECURSIVE FlattenBackwards(_)
FlattenBackwards(results) ==
  IF results = <<>> THEN <<>>
  ELSE FlattenBackwards(Tail(results)) \o Head(results).v

(* results.forEach(books => allBooks.push(...books)) *)
RECURSIVE Flatten(_)
Flatten(results) ==
  IF results = <<>> THEN <<>> ELSE Head(results).v \o Flatten(Tail(results))

(* await Promise.all(searchPromises); results.forEach(push); return        *)
(* allBooks.slice(0, 3): the value of the try block once every search has  *)
(* settled                                                                 *)
JoinResults(results) ==
  IF \E k \in DOMAIN results : results[k].t = "throw" THEN Throw
  ELSE LET allBooks == Flatten(results)
       IN Arr(Slice(allBooks, 3))

(* extractAndSearchBooks: catch (error) { return [] } *)
ExtractCatch(r) == IF r.t = "throw" THEN Arr(<<>>) ELSE r

----------------------------------------------------------------------------
(* Cover URLs and the Book records of the search hook and of the           *)
(* recommendations                                                         *)

(* String.prototype.replace(pat, rep): the first occurrence only *)
Replace(s, pat, rep) ==
  LET at == {i \in 1..(Len(s) - Len(pat) + 1) : Substr(s, i, i + Len(pat) - 1) = pat}
  IN IF at = {} THEN s
     ELSE LET i == CHOOSE x \in at : \A y \in at : x <= y
          IN Substr(s, 1, i - 1) \o rep \o Substr(s, i + Len(pat), Len(s))

(* a value inside a template literal *)
Interpolate(x) ==
  CASE x.t = "string" -> x.v
    [] x.t = "number" -> ToString(x.v)
    [] x.t = "undefined" -> "undefined"
    [] OTHER -> "null"

(* x ?? y *)
Nullish(x, y) == IF x.t \in {"undefined", "null"} THEN y ELSE x

(* x || y *)
Or(x, y) == IF Truthy(x) THEN x ELSE y

(* Array.isArray(x) && x.length ? x[0] : null *)
FirstOrNull(x) == IF x.t = "array" /\ Len(x.v) > 0 THEN Str(x.v[1]) ELSE NullV

(* generateCoverUrls with the work identifier tried before the cover id *)
generateCoverUrlsWorkFirst(doc) ==
  LET isbn == FirstOrNull(doc.isbn)
      olid == IF Truthy(doc.key)
              THEN Str(Replace(Replace(doc.key.v, "/works/", ""), "/books/", ""))
              ELSE NullV
      urls == (IF Truthy(isbn)
               THEN <<"https://covers.openlibrary.org/b/isbn/" \o isbn.v \o "-L.jpg?default=false">>
               ELSE <<>>)
              \o (IF Truthy(olid) /\ olid # isbn
                  THEN <<"https://covers.openlibrary.org/b/olid/" \o olid.v \o "-L.jpg?default=false">>
                  ELSE <<>>)
              \o (IF Truthy(doc.cover_i)
                  THEN <<"https://covers.openlibrary.org/b/id/" \o Interpolate(doc.cover_i)
                           \o "-L.jpg?default=false">>
                  ELSE <<>>)
              \o (IF Truthy(doc.edition_key) /\ doc.edition_key.t = "array"
                     /\ Len(doc.edition_key.v) > 0
                  THEN <<"https://covers.openlibrary.org/b/olid/" \o doc.edition_key.v[1]
                           \o "-L.jpg?default=false">>
                  ELSE <<>>)
  IN IF Len(urls) > 0 THEN Arr(urls) ELSE NullV

generateCoverUrls(doc) ==
  LET isbn == FirstOrNull(doc.isbn)
      olid == IF Truthy(doc.key)
              THEN Str(Replace(Replace(doc.key.v, "/works/", ""), "/books/", ""))
              ELSE NullV
      urls == (IF Truthy(isbn)
               THEN <<"https://covers.openlibrary.org/b/isbn/" \o isbn.v \o "-L.jpg?default=false">>
               ELSE <<>>)
              \o (IF Truthy(doc.cover_i)
                  THEN <<"https://covers.openlibrary.org/b/id/" \o Interpolate(doc.cover_i)
                           \o "-L.jpg?default=false">>
                  ELSE <<>>)
              \o (IF Truthy(olid) /\ olid # isbn
                  THEN <<"https://covers.openlibrary.org/b/olid/" \o olid.v \o "-L.jpg?default=false">>
                  ELSE <<>>)
              \o (IF Truthy(doc.edition_key) /\ doc.edition_key.t = "array"
                     /\ Len(doc.edition_key.v) > 0
                  THEN <<"https://covers.openlibrary.org/b/olid/" \o doc.edition_key.v[1]
                           \o "-L.jpg?default=false">>
                  ELSE <<>>)
  IN IF Len(urls) > 0 THEN Arr(urls) ELSE NullV

(* the last candidate taken for the first *)
PrimaryCoverLast(coverUrls) ==
  IF Truthy(coverUrls) /\ Len(coverUrls.v) > 0
  THEN Str(coverUrls.v[Len(coverUrls.v)]) ELSE NullV

(* coverUrls && coverUrls.length > 0 ? coverUrls[0] : null *)
PrimaryCover(coverUrls) ==
  IF Truthy(coverUrls) /\ Len(coverUrls.v) > 0 THEN Str(coverUrls.v[1]) ELSE NullV

(* useBookSearch.searchBooks: the callback of docs.map *)
processedBooks(doc) ==
  LET isbn == FirstOrNull(doc.isbn)
      edition == FirstOrNull(doc.edition_key)
      coverUrls == generateCoverUrls(doc)
      primaryCover == PrimaryCover(coverUrls)
  IN [id |-> IF Truthy(edition) THEN Str("/books/" \o edition.v)
             ELSE Or(doc.key,
                     Str(Interpolate(doc.title) \o "-"
                           \o Interpolate(Nullish(doc.cover_i, Nullish(isbn, Str("")))))),
      title |-> Or(doc.title, Str("Unknown Title")),
      authors |-> IF doc.author_name.t = "array" THEN doc.author_name
                  ELSE Or(doc.authors, Arr(<<>>)),
      description |-> Or(doc.subtitle, Or(doc.first_sentence, Undefined)),
      cover |-> primaryCover,
      coverUrls |-> coverUrls,
      publishedDate |-> Nullish(doc.first_publish_year,
                                IF doc.publish_year.t = "array"
                                THEN Num(doc.publish_year.v[1]) ELSE NullV),
      categories |-> IF doc.subject.t = "array" THEN doc.subject ELSE Undefined,
      pageCount |-> Nullish(doc.number_of_pages_median, NullV),
      infoLink |-> IF Truthy(edition) THEN Str("https://openlibrary.org/books/" \o edition.v)
                   ELSE IF Truthy(isbn) THEN Str("https://openlibrary.org/isbn/" \o isbn.v)
                   ELSE IF Truthy(doc.key) THEN Str("https://openlibrary.org" \o doc.key.v)
                   ELSE NullV,
      publisher |-> IF doc.publisher.t = "array" THEN Str(doc.publisher.v[1]) ELSE Undefined,
      language |-> IF doc.language.t = "array" THEN Str(doc.language.v[1]) ELSE Undefined,
      raw |-> doc]

(* fetchRecommendations: the callback of docs.slice(0, 24).map *)
fetchRecommendations(doc) ==
  LET isbn == FirstOrNull(doc.isbn)
      coverUrls == generateCoverUrls(doc)
      primaryCover == PrimaryCover(coverUrls)
  IN [id |-> Or(doc.key,
                Str(Interpolate(doc.title) \o "-"
                      \o Interpolate(Nullish(doc.cover_i, Nullish(isbn, Str("")))))),
      title |-> Or(doc.title, Str("Unknown Title")),
      authors |-> IF doc.author_name.t = "array" THEN doc.author_name ELSE Arr(<<>>),
      description |-> Or(doc.subtitle, Undefined),
      cover |-> primaryCover,
      coverUrls |-> coverUrls,
      publishedDate |-> Nullish(doc.first_publish_year, NullV),
      categories |-> IF doc.subject.t = "array" THEN doc.subject ELSE Undefined,
      averageRating |-> Undefined,
      ratingsCount |-> Undefined,
      pageCount |-> Nullish(doc.number_of_pages_median, NullV),
      infoLink |-> IF Truthy(doc.key) THEN Str("https://openlibrary.org" \o doc.key.v)
                   ELSE NullV,
      publisher |-> IF doc.publisher.t = "array" THEN Str(doc.publisher.v[1]) ELSE Undefined,
      language |-> IF doc.language.t = "array" THEN Str(doc.language.v[1]) ELSE Undefined]

----------------------------------------------------------------------------
(* The environment: what the user types and what the upstream services     *)
(* answer                                                                   *)

(* what the user may have typed into the input box *)
Inputs == {"", "  ", " hi ", " books like Dune "}

(* what the upstream model may answer to a conversation turn *)
CompletionReplies ==
  {"What genres do you enjoy?",
   "I recommend **\"Deep Work\" by Cal Newport** and **\"Atomic Habits\" by James Clear**"}

CompletionOutcomes ==
  {[ok |-> TRUE, text |-> r] : r \in CompletionReplies}
    \cup {[ok |-> FALSE, message |-> m] : m \in {"nokey", "quota exceeded", "socket hang up"}}

GateOutcomes ==
  {[ok |-> TRUE, text |-> r] : r \in {"YES", " yes\n", "NO", "Yes, it does."}}
    \cup {[ok |-> FALSE, message |-> "socket hang up"]}

ExtractionOutcomes ==
  {[ok |-> TRUE, text |-> r] :
     r \in {Arr(<<"Dune Frank Herbert", "Deep Work Cal Newport", "Deep Work",
                  "Sapiens Yuval Noah Harari">>),
            Arr(<<"Deep Work Cal Newport">>),
            [t |-> "object"], [t |-> "unparsable"]}}
    \cup {[ok |-> FALSE, message |-> "socket hang up"]}

(* what the search strategies may bring for one query: the outcomes of    *)
(* the fetches made, none being made after the first that brings docs      *)
Responses(query) ==
  Bind(FetchOutcomes(query), LAMBDA outcomes :
  Bind({r \in outcomes : r.t = "array" /\ Len(r.v) > 0}, LAMBDA brings :
  Bind(outcomes \ brings, LAMBDA fails :
    {<<r>> : r \in brings}
      \cup {<<f, r>> : f \in fails, r \in brings}
      \cup {<<f, g, r>> : f \in fails, g \in fails, r \in outcomes})))

----------------------------------------------------------------------------
(* The BookChatbot component *)

VARIABLES
  user,             \* useAuth().user: Null or the signed-in user id
  isOpen,           \* prop isOpen
  messages,         \* useState<Message[]>([])
  input,            \* useState('')
  isLoading,        \* useState(false)
  dailyUsage,       \* useState(0)
  isTableMissing,   \* useChatDatabase: useState(false)
  inits,            \* activations of initializeChat in flight
  turns,            \* activations of handleSendMessage in flight
  opensLeft,        \* how many more times the chat will be opened
  turnsLeft,        \* how many more submissions will be accepted
  last,             \* what the last call of handleSendMessage that was not
                    \* ignored did: "toast" (the limit notice) or "accepted"
  calls,            \* the last two direct calls of useChatDatabase operations
  callsLeft,        \* how many more direct calls will be made
  storeLog,         \* what the session has seen of the store so far
  capDay            \* the day on which dailyUsage was last set to DAILY_LIMIT
                    \* or more, 0 when it never was

(* a pure function applied on its own: its argument and its value *)
VARIABLES
  subject,
  result

pureVars == <<subject, result>>

storeVars == <<day, clock, usageTableExists, messagesTableExists, chat_usage, chat_messages>>

chatVars == <<user, isOpen, messages, input, isLoading, dailyUsage, isTableMissing,
              inits, turns, opensLeft, turnsLeft, last, storeLog, calls, callsLeft, capDay>>

vars == <<storeVars, chatVars, pureVars>>

(* rows left in the store by earlier sessions *)
PreloadedMessages(n) ==
  {[id |-> "old-" \o ToString(i), user_id |-> Me,
    role |-> IF i % 2 = 1 THEN "user" ELSE "assistant",
    content |-> "earlier", books |-> NullV, created_at |-> i] : i \in 1..n}
  \cup {[id |-> "old-0", user_id |-> Stranger, role |-> "user",
         content |-> "theirs", books |-> NullV, created_at |-> 0]}

PreloadedUsage(c) ==
  (IF c = 0 THEN {} ELSE {[user_id |-> Me, date |-> 1, count |-> c]})
  \cup {[user_id |-> Stranger, date |-> 1, count |-> 3]}

(* what earlier sessions left: usage count of the first day (0: no row)    *)
(* and number of messages                                                  *)
Preloads ==
  {[usage |-> DAILY_LIMIT - 1, messages |-> 4],
   [usage |-> DAILY_LIMIT, messages |-> 4]}

NoStoreLog ==
  [calls |-> FALSE, firstMissing |-> FALSE, reported |-> FALSE, attemptedAfter |-> FALSE]

(* a freshly mounted component, chat closed *)
Mounted ==
  /\ isOpen = FALSE
  /\ messages = <<>>
  /\ input = ""
  /\ isLoading = FALSE
  /\ dailyUsage = 0
  /\ isTableMissing = FALSE
  /\ inits = <<>>
  /\ turns = <<>>
  /\ last = "none"
  /\ calls = <<>>
  /\ storeLog = NoStoreLog
  /\ capDay = 0

(* the store: the setup script creates both tables, or was never run *)
StoreInit(preloads) ==
  /\ day = 1
  /\ usageTableExists \in BOOLEAN
  /\ messagesTableExists = usageTableExists
  /\ \E p \in preloads :
       /\ chat_usage = IF usageTableExists THEN PreloadedUsage(p.usage) ELSE {}
       /\ chat_messages = IF messagesTableExists THEN PreloadedMessages(p.messages) ELSE {}
       /\ clock = p.messages + 1

Init ==
  /\ StoreInit(Preloads)
  /\ user = Null
  /\ Mounted
  /\ opensLeft = MaxOpens
  /\ turnsLeft = MaxTurns
  /\ callsLeft = 0
  /\ subject = NullV
  /\ result = NullV

(* storeLog after a store operation with result r: calls (a request was   *)
(* made), firstMissing (the first request was answered 42P01), reported   *)
(* (some request was answered 42P01), attemptedAfter (a request was made  *)
(* after a 42P01 answer)                                                  *)
Logged(r) ==
  IF ~r.attempted THEN storeLog
  ELSE [calls |-> TRUE,
        firstMissing |-> IF storeLog.calls THEN storeLog.firstMissing ELSE r.missing,
        reported |-> storeLog.reported \/ r.missing,
        attemptedAfter |-> storeLog.attemptedAfter \/ storeLog.reported]

Remove(s, i) == SubSeq(s, 1, i - 1) \o SubSeq(s, i + 1, Len(s))

(* capDay after setDailyUsage(usage) *)
CapDay(usage) == IF usage >= DAILY_LIMIT THEN day ELSE capDay

(* useEffect(() => { if (user && isOpen) initializeChat() }, [user, isOpen]) *)
StartInit(u, open) ==
  IF u # Null /\ open
  THEN Append(inits, [pc |-> "checkDailyUsage", user |-> u,
                      isTableMissing |-> isTableMissing])
  ELSE inits

OpenChat ==
  /\ ~isOpen
  /\ opensLeft > 0
  /\ isOpen' = TRUE
  /\ opensLeft' = opensLeft - 1
  /\ inits' = StartInit(user, TRUE)
  /\ UNCHANGED <<storeVars, user, messages, input, isLoading, dailyUsage,
                 isTableMissing, turns, turnsLeft, storeLog, last, calls, callsLeft, capDay, pureVars>>

CloseChat ==
  /\ isOpen
  /\ isOpen' = FALSE
  /\ UNCHANGED <<storeVars, user, messages, input, isLoading, dailyUsage,
                 isTableMissing, inits, turns, opensLeft, turnsLeft, storeLog, last, calls, callsLeft, capDay, pureVars>>

SignIn ==
  /\ user = Null
  /\ user' = Me
  /\ inits' = StartInit(Me, isOpen)
  /\ UNCHANGED <<storeVars, isOpen, messages, input, isLoading, dailyUsage,
                 isTableMissing, turns, opensLeft, turnsLeft, storeLog, last, calls, callsLeft, capDay, pureVars>>

(* the calendar date rolls over *)
NextDay ==
  /\ day < MaxDay
  /\ day' = day + 1
  /\ UNCHANGED <<clock, usageTableExists, messagesTableExists, chat_usage,
                 chat_messages, user, isOpen, messages, input, isLoading, dailyUsage,
                 isTableMissing, inits, turns, opensLeft, turnsLeft, storeLog, last, calls, callsLeft, capDay, pureVars>>

(* initializeChat: const usage = await checkDailyUsage(); setDailyUsage(usage) *)
InitCheckUsage(i, o) ==
  /\ i \in DOMAIN inits
  /\ inits[i].pc = "checkDailyUsage"
  /\ LET a == inits[i]
         r == checkDailyUsage(a.user, a.isTableMissing, o)
     IN /\ dailyUsage' = r.ret
        /\ capDay' = CapDay(r.ret)
        /\ isTableMissing' = (isTableMissing \/ r.missing)
        /\ inits' = [inits EXCEPT ![i].pc = "loadChatHistory"]
        /\ storeLog' = Logged(r)
  /\ UNCHANGED <<storeVars, user, isOpen, messages, input, isLoading, turns,
                 opensLeft, turnsLeft, last, calls, callsLeft, pureVars>>

(* initializeChat: const history = await loadChatHistory(); setMessages(history) *)
InitLoadHistory(i, o) ==
  /\ i \in DOMAIN inits
  /\ inits[i].pc = "loadChatHistory"
  /\ LET a == inits[i]
         r == loadChatHistory(a.user, a.isTableMissing, o)
     IN /\ messages' = r.ret
        /\ isTableMissing' = (isTableMissing \/ r.missing)
        /\ inits' = Remove(inits, i)
        /\ storeLog' = Logged(r)
  /\ UNCHANGED <<storeVars, user, isOpen, input, isLoading, dailyUsage, turns,
                 opensLeft, turnsLeft, last, calls, callsLeft, capDay, pureVars>>

----------------------------------------------------------------------------
(* handleSendMessage.  An accepted submission becomes an activation in     *)
(* turns; it keeps the user, dailyUsage, isTableMissing and messages of    *)
(* the render that created the handler, and advances one await at a time.  *)
(* The activation also records what it did: stored (the count the store    *)
(* held when it was submitted), the calls it made, found (the size of      *)
(* foundBooks) and caught (an error was caught on the way).                *)

(* onChange of the input box: setInput(e.target.value).  The disabled    *)
(* attribute of the box is not relied on: the text may change whenever the *)
(* chat is shown.                                                          *)
TypeInput(text) ==
  /\ isOpen
  /\ text # input
  /\ input' = text
  /\ UNCHANGED <<storeVars, user, isOpen, messages, isLoading, dailyUsage,
                 isTableMissing, inits, turns, opensLeft, turnsLeft, storeLog, last, calls, callsLeft, capDay, pureVars>>

(* the guard without the user *)
SubmitIgnoredSignedIn == Trim(input) = "" \/ isLoading

(* the guard without isLoading *)
SubmitIgnoredWhileIdle == Trim(input) = "" \/ user = Null

(* if (!input.trim() || !user || isLoading) return *)
SubmitIgnored == Trim(input) = "" \/ user = Null \/ isLoading

(* the limit test left out *)
LimitNever == FALSE

(* if (dailyUsage >= DAILY_LIMIT) { toast(...); return } *)
LimitReached == dailyUsage >= DAILY_LIMIT

(* the count the store holds for the user's current day, 0 without a record *)
StoredUsageToday ==
  IF user # Null /\ usageTableExists /\ Truthy(SelectSingleUsage(user, day))
  THEN SelectSingleUsage(user, day).v
  ELSE 0

(* the whole transcript, nothing sliced off *)
LastAll(msgs) ==
  [i \in 1..Len(msgs) |-> [role |-> msgs[i].role, content |-> msgs[i].content]]

(* messages.slice(-5).map(m => ({role, content})) *)
LastFive(msgs) ==
  LET from == IF Len(msgs) > 5 THEN Len(msgs) - 4 ELSE 1
  IN [i \in 1..(Len(msgs) - from + 1) |->
        [role |-> msgs[from + i - 1].role, content |-> msgs[from + i - 1].content]]

NewTurn(userMessage) ==
  [pc |-> "saveUserMessage", user |-> user, dailyUsage |-> dailyUsage,
   isTableMissing |-> isTableMissing, context |-> LastFive(messages),
   userMessage |-> userMessage, stored |-> StoredUsageToday,
   response |-> "", failed |-> FALSE, completionCalls |-> 0, gateCalls |-> 0,
   shouldSearchBooks |-> NullV, found |-> 0, caught |-> FALSE,
   extractCalls |-> 0, catalogCalls |-> 0, queries |-> <<>>, results |-> <<>>,
   order |-> <<>>,
   assistantMessage |-> NullV]

handleSendMessage ==
  /\ isOpen
  /\ IF SubmitIgnored
     THEN UNCHANGED vars
     ELSE IF LimitReached
     THEN /\ last' = "toast"
          /\ UNCHANGED <<storeVars, user, isOpen, messages, input, isLoading, dailyUsage,
                         isTableMissing, inits, turns, opensLeft, turnsLeft, storeLog,
                         calls, callsLeft, capDay, pureVars>>
     ELSE /\ turnsLeft > 0
          /\ LET userMessage == [id |-> "user-" \o ToString(clock), role |-> "user",
                                 content |-> Trim(input), books |-> Undefined,
                                 timestamp |-> clock]
             IN /\ messages' = Append(messages, userMessage)
                /\ turns' = Append(turns, NewTurn(userMessage))
          /\ input' = ""
          /\ isLoading' = TRUE
          /\ clock' = clock + 1
          /\ turnsLeft' = turnsLeft - 1
          /\ last' = "accepted"
          /\ UNCHANGED <<day, usageTableExists, messagesTableExists, chat_usage,
                         chat_messages, user, isOpen, dailyUsage, isTableMissing,
                         inits, opensLeft, storeLog, calls, callsLeft, capDay, pureVars>>

(* await saveChatMessage(userMessage) *)
SaveUserMessage(i, o) ==
  /\ i \in DOMAIN turns
  /\ turns[i].pc = "saveUserMessage"
  /\ LET a == turns[i]
         r == saveChatMessage(a.user, a.isTableMissing, o, a.userMessage)
     IN /\ chat_messages' = r.table
        /\ clock' = clock + 1
        /\ isTableMissing' = (isTableMissing \/ r.missing)
        /\ storeLog' = Logged(r)
  /\ turns' = [turns EXCEPT ![i].pc = "callGeminiAPI"]
  /\ UNCHANGED <<day, usageTableExists, messagesTableExists, chat_usage, user, isOpen,
                 messages, input, isLoading, dailyUsage, inits, opensLeft, turnsLeft, last, calls, callsLeft, capDay, pureVars>>

(* const { response } = await callGeminiAPI(userMessage.content) *)
CallGemini(i, o) ==
  /\ i \in DOMAIN turns
  /\ turns[i].pc = "callGeminiAPI"
  /\ turns' = [turns EXCEPT ![i].pc = "shouldExtractBooks",
                            ![i].response = callGeminiAPI(o).response,
                            ![i].failed = callGeminiAPI(o).failed,
                            ![i].completionCalls = 1]
  /\ UNCHANGED <<storeVars, user, isOpen, messages, input, isLoading, dailyUsage,
                 isTableMissing, inits, opensLeft, turnsLeft, storeLog, last, calls, callsLeft, capDay, pureVars>>

(* const assistantMessage = {...}: books is the value extractAndSearchBooks *)
(* resolved to                                                              *)
AssistantMessage(a, books) ==
  [id |-> "assistant-" \o ToString(clock), role |-> "assistant",
   content |-> a.response,
   books |-> IF Len(books.v) > 0 THEN books ELSE Undefined,
   timestamp |-> clock]

(* the activation a once extractAndSearchBooks has resolved to books:      *)
(* setMessages(prev => [...prev, assistantMessage])                        *)
Settled(a, books) ==
  [a EXCEPT !.pc = "saveAssistantMessage",
            !.assistantMessage = AssistantMessage(a, books)]

(* the early return left out *)
EarlyReturnNever(shouldSearchBooks) == FALSE

(* if (!shouldSearchBooks) { return [] } *)
EarlyReturn(shouldSearchBooks) == ~shouldSearchBooks

(* extractAndSearchBooks has resolved to books for the activation a at i:   *)
(* the assistant message is built and appended to the transcript           *)
Resolve(i, a, books) ==
  \E settled \in {Settled(a, books)} :
    /\ turns' = [turns EXCEPT ![i] = settled]
    /\ messages' = Append(messages, settled.assistantMessage)
    /\ clock' = clock + 1

(* what follows the classifier's decision: the early return, or on to the  *)
(* extraction                                                              *)
Decided(i, shouldSearchBooks, caught) ==
  IF ~EarlyReturn(shouldSearchBooks)
  THEN /\ turns' = [turns EXCEPT ![i].gateCalls = 1,
                                 ![i].shouldSearchBooks = Bool(shouldSearchBooks),
                                 ![i].caught = caught,
                                 ![i].pc = "extractBooksWithGemini"]
       /\ UNCHANGED <<messages, clock>>
  ELSE Resolve(i, [turns[i] EXCEPT !.gateCalls = 1,
                                   !.shouldSearchBooks = Bool(shouldSearchBooks),
                                   !.caught = caught],
               ExtractCatch(Arr(<<>>)))

(* extractAndSearchBooks: await shouldExtractBooks(text, userMessage), and *)
(* the early return                                                        *)
Gate(i, g) ==
  /\ i \in DOMAIN turns
  /\ turns[i].pc = "shouldExtractBooks"
  /\ Decided(i, shouldExtractBooks(turns[i].response, turns[i].userMessage.content, g),
             ~geminiCall(g).ok)
  /\ UNCHANGED <<day, usageTableExists, messagesTableExists, chat_usage, chat_messages,
                 user, isOpen, input, isLoading, dailyUsage, isTableMissing, inits,
                 opensLeft, turnsLeft, storeLog, last, calls, callsLeft, capDay, pureVars>>

(* the searches are started for Array.from(foundBooks).slice(0, 3); with   *)
(* no candidate, Promise.all([]) resolves at once                          *)
StartSearches(i, foundBooks, queries, caught) ==
  IF queries = <<>>
  THEN Resolve(i, [turns[i] EXCEPT !.extractCalls = 1,
                                   !.found = Len(foundBooks),
                                   !.caught = caught],
               ExtractCatch(JoinResults(<<>>)))
  ELSE /\ turns' = [turns EXCEPT ![i].extractCalls = 1,
                                 ![i].found = Len(foundBooks),
                                 ![i].caught = caught,
                                 ![i].catalogCalls = Len(queries),
                                 ![i].queries = queries,
                                 ![i].results = [k \in DOMAIN queries |-> Pending],
                                 ![i].pc = "searching"]
       /\ UNCHANGED <<messages, clock>>

(* the candidate Set of the activation at i, given the extraction outcome *)
Candidates(i, e) == FoundBooks(turns[i].response, extractBooksWithGemini(e))

(* await extractBooksWithGemini(text); the three patterns; the searches    *)
Extract(i, e) ==
  /\ i \in DOMAIN turns
  /\ turns[i].pc = "extractBooksWithGemini"
  /\ \E foundBooks \in {Candidates(i, e)} :
       StartSearches(i, foundBooks, Queries(foundBooks),
                     turns[i].caught \/ ~geminiCall(e).ok
                       \/ geminiCall(e).response.t = "unparsable")
  /\ UNCHANGED <<day, usageTableExists, messagesTableExists, chat_usage, chat_messages,
                 user, isOpen, input, isLoading, dailyUsage, isTableMissing, inits,
                 opensLeft, turnsLeft, storeLog, last, calls, callsLeft, capDay, pureVars>>

(* a Promise.all that never resolves *)
SettleNever(i, a) ==
  /\ turns' = [turns EXCEPT ![i] = a]
  /\ UNCHANGED <<messages, clock>>

(* the activation a at i after one of its searches has settled: when it    *)
(* was the last one, Promise.all resolves and extractAndSearchBooks        *)
(* returns                                                                 *)
Settle(i, a) ==
  IF \E j \in DOMAIN a.results : a.results[j] = Pending
  THEN /\ turns' = [turns EXCEPT ![i] = a]
       /\ UNCHANGED <<messages, clock>>
  ELSE Resolve(i, a, ExtractCatch(JoinResults(a.results)))

(* the k-th search promise settles *)
SearchSettles(i, k, responses) ==
  /\ i \in DOMAIN turns
  /\ turns[i].pc = "searching"
  /\ k \in DOMAIN turns[i].results
  /\ turns[i].results[k] = Pending
  /\ \E a \in {[turns[i] EXCEPT !.results[k] = SearchPromise(responses),
                                  !.order = Append(turns[i].order, k),
                                  !.caught = (turns[i].caught \/ SearchBody(responses) = Throw
                                              \/ \E s \in DOMAIN responses : responses[s] = Throw)]} :
       Settle(i, a)
  /\ UNCHANGED <<day, usageTableExists, messagesTableExists, chat_usage, chat_messages,
                 user, isOpen, input, isLoading, dailyUsage, isTableMissing, inits,
                 opensLeft, turnsLeft, storeLog, last, calls, callsLeft, capDay, pureVars>>

(* await saveChatMessage(assistantMessage) *)
SaveAssistantMessage(i, o) ==
  /\ i \in DOMAIN turns
  /\ turns[i].pc = "saveAssistantMessage"
  /\ LET a == turns[i]
         r == saveChatMessage(a.user, a.isTableMissing, o, a.assistantMessage)
     IN /\ chat_messages' = r.table
        /\ clock' = clock + 1
        /\ isTableMissing' = (isTableMissing \/ r.missing)
        /\ storeLog' = Logged(r)
  /\ turns' = [turns EXCEPT ![i].pc = "updateDailyUsage"]
  /\ UNCHANGED <<day, usageTableExists, messagesTableExists, chat_usage, user, isOpen,
                 messages, input, isLoading, dailyUsage, inits, opensLeft, turnsLeft, last, calls, callsLeft, capDay, pureVars>>

(* const newUsage = await updateDailyUsage(dailyUsage);                    *)
(* setDailyUsage(newUsage); setIsLoading(false)                            *)
UpdateUsage(i, o) ==
  /\ i \in DOMAIN turns
  /\ turns[i].pc = "updateDailyUsage"
  /\ LET a == turns[i]
         r == updateDailyUsage(a.user, a.isTableMissing, o, a.dailyUsage)
     IN /\ chat_usage' = r.table
        /\ dailyUsage' = r.ret
        /\ capDay' = CapDay(r.ret)
        /\ isTableMissing' = (isTableMissing \/ r.missing)
        /\ storeLog' = Logged(r)
  /\ isLoading' = FALSE
  /\ turns' = Remove(turns, i)
  /\ UNCHANGED <<day, clock, usageTableExists, messagesTableExists, chat_messages, user,
                 isOpen, messages, input, inits, opensLeft, turnsLeft, last, calls,
                 callsLeft, pureVars>>

----------------------------------------------------------------------------
(* The session: the component, the store and the upstream services.  The   *)
(* completion service replies and the classifier answers NO, so that no    *)
(* extraction is started; SpecEngine below has the other outcomes.         *)

Next ==
  \/ OpenChat
  \/ CloseChat
  \/ SignIn
  \/ NextDay
  \/ \E text \in {"", " hi "} : TypeInput(text)
  \/ \E i \in DOMAIN inits : \E o \in StoreOutcomes(usageTableExists) : InitCheckUsage(i, o)
  \/ \E i \in DOMAIN inits : \E o \in StoreOutcomes(messagesTableExists) : InitLoadHistory(i, o)
  \/ handleSendMessage
  \/ \E i \in DOMAIN turns : \E o \in StoreOutcomes(messagesTableExists) : SaveUserMessage(i, o)
  \/ \E i \in DOMAIN turns : \E o \in {[ok |-> TRUE, text |-> "What genres do you enjoy?"]} :
       CallGemini(i, o)
  \/ \E i \in DOMAIN turns : \E g \in {[ok |-> TRUE, text |-> "NO"]} : Gate(i, g)
  \/ \E i \in DOMAIN turns : \E o \in StoreOutcomes(messagesTableExists) :
       SaveAssistantMessage(i, o)
  \/ \E i \in DOMAIN turns : \E o \in StoreOutcomes(usageTableExists) : UpdateUsage(i, o)

Spec == Init /\ [][Next]_vars

----------------------------------------------------------------------------
(* One turn of an opened and initialised chat, under every outcome of the  *)
(* completion service, the classifier, the extraction and the catalog; the *)
(* user types while the input box is enabled                               *)

InitEngine ==
  /\ day = 1
  /\ usageTableExists = TRUE
  /\ messagesTableExists = TRUE
  /\ chat_usage = PreloadedUsage(0)
  /\ chat_messages = PreloadedMessages(0)
  /\ clock = 1
  /\ user = Me
  /\ isOpen = TRUE
  /\ messages = <<>>
  /\ input = ""
  /\ isLoading = FALSE
  /\ dailyUsage = 0
  /\ isTableMissing = FALSE
  /\ inits = <<>>
  /\ turns = <<>>
  /\ opensLeft = 0
  /\ turnsLeft = 1
  /\ last = "none"
  /\ storeLog = [NoStoreLog EXCEPT !.calls = TRUE]
  /\ calls = <<>>
  /\ callsLeft = 0
  /\ capDay = 0
  /\ subject = NullV
  /\ result = NullV

NextEngine ==
  \/ \E text \in Inputs : ~isLoading /\ TypeInput(text)
  \/ handleSendMessage
  \/ \E i \in DOMAIN turns : \E o \in StoreOutcomes(messagesTableExists) : SaveUserMessage(i, o)
  \/ \E i \in DOMAIN turns : \E o \in CompletionOutcomes : CallGemini(i, o)
  \/ \E i \in DOMAIN turns : \E g \in GateOutcomes : Gate(i, g)
  \/ \E i \in DOMAIN turns : \E e \in ExtractionOutcomes : Extract(i, e)
  \/ \E i \in DOMAIN turns :
       \E k \in {j \in DOMAIN turns[i].results : turns[i].results[j] = Pending} :
         \E responses \in Responses(turns[i].queries[k]) :
           SearchSettles(i, k, responses)
  \/ \E i \in DOMAIN turns : \E o \in StoreOutcomes(messagesTableExists) :
       SaveAssistantMessage(i, o)
  \/ \E i \in DOMAIN turns : \E o \in StoreOutcomes(usageTableExists) : UpdateUsage(i, o)

SpecEngine == InitEngine /\ [][NextEngine]_vars

(* the continuation of an await runs once its promise has settled: a step  *)
(* of the turn in flight, under some outcome of the call it waits for      *)
TurnStep ==
  \E i \in DOMAIN turns :
    \/ \E o \in StoreOutcomes(messagesTableExists) : SaveUserMessage(i, o)
    \/ \E o \in CompletionOutcomes : CallGemini(i, o)
    \/ \E g \in GateOutcomes : Gate(i, g)
    \/ \E e \in ExtractionOutcomes : Extract(i, e)
    \/ \E k \in DOMAIN turns[i].results : \E responses \in Responses(turns[i].queries[k]) :
         SearchSettles(i, k, responses)
    \/ \E o \in StoreOutcomes(messagesTableExists) : SaveAssistantMessage(i, o)
    \/ \E o \in StoreOutcomes(usageTableExists) : UpdateUsage(i, o)

(* the turn of SpecEngine when every external call eventually returns or   *)
(* fails                                                                   *)
SpecEngineFair == InitEngine /\ [][NextEngine]_vars /\ WF_vars(TurnStep)

----------------------------------------------------------------------------
(* One day of an opened chat whose store has neither table: every store    *)
(* request is answered 42P01, another error, or is rejected.  The          *)
(* completion service replies and the classifier answers NO.               *)

InitOutage ==
  /\ day = 1
  /\ usageTableExists = FALSE
  /\ messagesTableExists = FALSE
  /\ chat_usage = {}
  /\ chat_messages = {}
  /\ clock = 1
  /\ user = Me
  /\ isOpen = TRUE
  /\ messages = <<>>
  /\ input = ""
  /\ isLoading = FALSE
  /\ dailyUsage = 0
  /\ isTableMissing = FALSE
  /\ inits = <<>>
  /\ turns = <<>>
  /\ opensLeft = 0
  /\ turnsLeft = DAILY_LIMIT + 1
  /\ last = "none"
  /\ storeLog = NoStoreLog
  /\ calls = <<>>
  /\ callsLeft = 0
  /\ capDay = 0
  /\ subject = NullV
  /\ result = NullV

NextOutage ==
  \/ ~isLoading /\ TypeInput(" hi ")
  \/ handleSendMessage
  \/ \E i \in DOMAIN turns : \E o \in StoreOutcomes(messagesTableExists) : SaveUserMessage(i, o)
  \/ \E i \in DOMAIN turns : CallGemini(i, [ok |-> TRUE, text |-> "What genres do you enjoy?"])
  \/ \E i \in DOMAIN turns : Gate(i, [ok |-> TRUE, text |-> "NO"])
  \/ \E i \in DOMAIN turns : \E o \in StoreOutcomes(messagesTableExists) :
       SaveAssistantMessage(i, o)
  \/ \E i \in DOMAIN turns : \E o \in StoreOutcomes(usageTableExists) : UpdateUsage(i, o)

SpecOutage == InitOutage /\ [][NextOutage]_vars

----------------------------------------------------------------------------
(* useChatDatabase on its own: a signed-in client calls the four           *)
(* operations directly, in any order                                       *)

StorePreloads ==
  {[usage |-> 0, messages |-> 0],
   [usage |-> DAILY_LIMIT - 1, messages |-> HISTORY_LIMIT - 1],
   [usage |-> DAILY_LIMIT, messages |-> HISTORY_LIMIT + 1]}

(* the messages the client appends *)
SampleMessages ==
  {[id |-> "user-" \o ToString(clock), role |-> "user", content |-> "books like Dune",
    books |-> Undefined, timestamp |-> clock],
   [id |-> "assistant-" \o ToString(clock), role |-> "assistant",
    content |-> "I recommend **\"Deep Work\" by Cal Newport**",
    books |-> Arr(<<DocToBook(DocDeepWork), DocToBook(DocNoKey)>>), timestamp |-> clock]}

(* calls after the call c *)
Called(c) ==
  IF Len(calls) < 2 THEN Append(calls, c) ELSE <<calls[2], c>>

InitStore ==
  /\ StoreInit(StorePreloads)
  /\ user = Me
  /\ Mounted
  /\ opensLeft = 0
  /\ turnsLeft = 0
  /\ callsLeft = MaxCalls
  /\ subject = NullV
  /\ result = NullV

CallCheckDailyUsage(o) ==
  /\ callsLeft > 0
  /\ callsLeft' = callsLeft - 1
  /\ LET r == checkDailyUsage(user, isTableMissing, o)
     IN /\ isTableMissing' = (isTableMissing \/ r.missing)
        /\ storeLog' = Logged(r)
        /\ calls' = Called([op |-> "checkDailyUsage", day |-> day, outcome |-> o,
                            attempted |-> r.attempted, arg |-> Undefined,
                            ret |-> Num(r.ret),
                            rows |-> Cardinality(UsageRows(user, day))])
  /\ UNCHANGED <<storeVars, user, isOpen, messages, input, isLoading, dailyUsage,
                 inits, turns, opensLeft, turnsLeft, last, capDay, pureVars>>

CallUpdateDailyUsage(currentCount, o) ==
  /\ callsLeft > 0
  /\ callsLeft' = callsLeft - 1
  /\ LET r == updateDailyUsage(user, isTableMissing, o, currentCount)
     IN /\ chat_usage' = r.table
        /\ isTableMissing' = (isTableMissing \/ r.missing)
        /\ storeLog' = Logged(r)
        /\ calls' = Called([op |-> "updateDailyUsage", day |-> day, outcome |-> o,
                            attempted |-> r.attempted, arg |-> Num(currentCount),
                            ret |-> Num(r.ret),
                            rows |-> Cardinality(UsageRows(user, day))])
  /\ UNCHANGED <<day, clock, usageTableExists, messagesTableExists, chat_messages, user,
                 isOpen, messages, input, isLoading, dailyUsage, inits, turns, opensLeft,
                 turnsLeft, last, capDay, pureVars>>

CallLoadChatHistory(o) ==
  /\ callsLeft > 0
  /\ callsLeft' = callsLeft - 1
  /\ LET r == loadChatHistory(user, isTableMissing, o)
     IN /\ isTableMissing' = (isTableMissing \/ r.missing)
        /\ storeLog' = Logged(r)
        /\ calls' = Called([op |-> "loadChatHistory", day |-> day, outcome |-> o,
                            attempted |-> r.attempted, arg |-> Undefined,
                            ret |-> Arr(r.ret),
                            rows |-> Cardinality({m \in chat_messages : m.user_id = user})])
  /\ UNCHANGED <<storeVars, user, isOpen, messages, input, isLoading, dailyUsage,
                 inits, turns, opensLeft, turnsLeft, last, capDay, pureVars>>

CallSaveChatMessage(message, o) ==
  /\ callsLeft > 0
  /\ callsLeft' = callsLeft - 1
  /\ LET r == saveChatMessage(user, isTableMissing, o, message)
     IN /\ chat_messages' = r.table
        /\ clock' = clock + 1
        /\ isTableMissing' = (isTableMissing \/ r.missing)
        /\ storeLog' = Logged(r)
        /\ calls' = Called([op |-> "saveChatMessage", day |-> day, outcome |-> o,
                            attempted |-> r.attempted,
                            arg |-> [t |-> "message", v |-> message],
                            ret |-> Undefined,
                            rows |-> Cardinality({m \in chat_messages : m.user_id = user})])
  /\ UNCHANGED <<day, usageTableExists, messagesTableExists, chat_usage, user, isOpen,
                 messages, input, isLoading, dailyUsage, inits, turns, opensLeft,
                 turnsLeft, last, capDay, pureVars>>

NextStore ==
  \/ NextDay
  \/ \E o \in StoreOutcomes(usageTableExists) : CallCheckDailyUsage(o)
  \/ \E n \in {0, DAILY_LIMIT - 1} : \E o \in StoreOutcomes(usageTableExists) :
       CallUpdateDailyUsage(n, o)
  \/ \E o \in StoreOutcomes(messagesTableExists) : CallLoadChatHistory(o)
  \/ \E m \in SampleMessages : \E o \in StoreOutcomes(messagesTableExists) :
       CallSaveChatMessage(m, o)

SpecStore == InitStore /\ [][NextStore]_vars

----------------------------------------------------------------------------
(* The pure functions on their own: cover URL derivation, the three        *)
(* normalisations of a catalog record, and the candidate set of the        *)
(* extraction when the extraction call is unavailable                      *)

(* a record of the Open Library search response with the identifiers given *)
CatalogDoc(isbn, key, cover_i, edition_key) ==
  [t |-> "object", isbn |-> isbn, key |-> key, cover_i |-> cover_i,
   edition_key |-> edition_key, title |-> Str("Deep Work"),
   author_name |-> Arr(<<"Cal Newport">>), authors |-> Undefined,
   subtitle |-> Undefined, first_sentence |-> Undefined,
   first_publish_year |-> Num(currentYear - 1), publish_year |-> Undefined,
   edition_count |-> Num(4), subject |-> Undefined,
   number_of_pages_median |-> Undefined, publisher |-> Undefined,
   language |-> Undefined]

(* every combination of identifiers present, absent or empty; one ISBN is  *)
(* spelled like the work identifier                                        *)
CatalogDocs ==
  {CatalogDoc(isbn, key, cover_i, edition_key) :
     isbn \in {Undefined, Arr(<<>>), Arr(<<"9780316769488">>), Arr(<<"OL1W">>)},
     key \in {Undefined, Str("/works/OL1W")},
     cover_i \in {Undefined, Num(11)},
     edition_key \in {Undefined, Arr(<<>>), Arr(<<"OL7M">>)}}

(* the markdown convention of the assistant's replies *)
Occurrence(title, author) == "**\"" \o title \o "\" by " \o author \o "**"

(* the parts a reply is made of: plain words, or a book in the markdown    *)
(* convention                                                              *)
ReplyParts ==
  {[text |-> "Try these", pairs |-> <<>>]}
    \cup {[text |-> Occurrence(b.title, b.author), pairs |-> <<b>>] :
            b \in {[title |-> "She", author |-> "H. Rider Haggard"],
                   [title |-> "It", author |-> "Stephen King"],
                   [title |-> "Dune", author |-> "Frank Herbert"],
                   [title |-> "Atomic Habits", author |-> "James Clear"],
                   [title |-> "atomic habits", author |-> "james clear"]}}

(* the replies of n parts, with the books each one names *)
RECURSIVE RepliesOf(_)
RepliesOf(n) ==
  IF n = 1 THEN ReplyParts
  ELSE {[text |-> r.text \o ", " \o q.text, pairs |-> r.pairs \o q.pairs] :
          r \in RepliesOf(n - 1), q \in ReplyParts}

Replies == UNION {RepliesOf(n) : n \in 1..MaxParts}

(* a reply, the user's message it answers and the outcome of the           *)
(* classifier call, with what each of them holds: the word "recommend" in  *)
(* any letter case, a whole **"Title" by Author**, the opening **" alone,  *)
(* the phrase "books like" as written or in any letter case, a YES once    *)
(* trimmed and upper-cased                                                 *)
Conversations ==
  {[t |-> "conversation", v |-> r.text, pairs |-> <<>>, userMessage |-> m.text, g |-> g.o,
    recommend |-> r.recommend, pattern |-> r.pattern, opening |-> r.opening,
    booksLike |-> m.booksLike, booksLikeAnyCase |-> m.booksLikeAnyCase,
    ok |-> g.o.ok, yes |-> g.yes] :
     r \in {[text |-> "What genres do you enjoy?",
             recommend |-> FALSE, pattern |-> FALSE, opening |-> FALSE],
            [text |-> "I Recommend Dune",
             recommend |-> TRUE, pattern |-> FALSE, opening |-> FALSE],
            [text |-> "Try " \o Occurrence("Dune", "Frank Herbert"),
             recommend |-> FALSE, pattern |-> TRUE, opening |-> TRUE],
            [text |-> "**\"Focus\"** matters most",
             recommend |-> FALSE, pattern |-> FALSE, opening |-> TRUE]},
     m \in {[text |-> "hi", booksLike |-> FALSE, booksLikeAnyCase |-> FALSE],
            [text |-> "books like Dune", booksLike |-> TRUE, booksLikeAnyCase |-> TRUE],
            [text |-> "Books Like Dune", booksLike |-> FALSE, booksLikeAnyCase |-> TRUE]},
     g \in {[o |-> [ok |-> TRUE, text |-> "YES"], yes |-> TRUE],
            [o |-> [ok |-> TRUE, text |-> " yes\n"], yes |-> TRUE],
            [o |-> [ok |-> TRUE, text |-> "NO"], yes |-> FALSE],
            [o |-> [ok |-> TRUE, text |-> "Yes, it does."], yes |-> FALSE],
            [o |-> [ok |-> TRUE, text |-> ""], yes |-> FALSE],
            [o |-> [ok |-> FALSE, message |-> "socket hang up"], yes |-> FALSE],
            [o |-> [ok |-> FALSE, message |-> "nokey"], yes |-> FALSE]}}

InitFunctions ==
  /\ day = 1
  /\ usageTableExists = TRUE
  /\ messagesTableExists = TRUE
  /\ chat_usage = {}
  /\ chat_messages = {}
  /\ clock = 1
  /\ user = Me
  /\ Mounted
  /\ opensLeft = 0
  /\ turnsLeft = 0
  /\ callsLeft = 0
  /\ result = NullV
  /\ \/ \E doc \in CatalogDocs : subject = [t |-> "doc", v |-> doc, pairs |-> <<>>]
     \/ \E r \in Replies : subject = [t |-> "text", v |-> r.text, pairs |-> r.pairs]
     \/ \E c \in Conversations : subject = c

Applied(fn, v) ==
  /\ result = NullV
  /\ result' = [t |-> fn, v |-> v]
  /\ UNCHANGED <<storeVars, chatVars, subject>>

ApplyGenerateCoverUrls ==
  /\ subject.t = "doc"
  /\ Applied("generateCoverUrls", generateCoverUrls(subject.v))

ApplyProcessedBooks ==
  /\ subject.t = "doc"
  /\ Applied("processedBooks", processedBooks(subject.v))

ApplyFetchRecommendations ==
  /\ subject.t = "doc"
  /\ Applied("fetchRecommendations", fetchRecommendations(subject.v))

(* the chat's catalog search maps the records its filter has kept *)
ApplySearchBooksFromOpenLibrary ==
  /\ subject.t = "doc"
  /\ KeepDoc(subject.v)
  /\ Applied("searchBooksFromOpenLibrary", DocToBook(subject.v))

(* shouldExtractBooks(assistantResponse, userMessage) under the outcome g   *)
(* of the classifier call                                                  *)
ApplyShouldExtractBooks ==
  /\ subject.t = "conversation"
  /\ Applied("shouldExtractBooks",
             shouldExtractBooks(subject.v, subject.userMessage, subject.g))

ApplyFoundBooks ==
  /\ subject.t = "text"
  /\ Applied("foundBooks", FoundBooks(subject.v,
                        extractBooksWithGemini([ok |-> FALSE, message |-> "socket hang up"])))

NextFunctions ==
  \/ ApplyGenerateCoverUrls
  \/ ApplyProcessedBooks
  \/ ApplyFetchRecommendations
  \/ ApplySearchBooksFromOpenLibrary
  \/ ApplyFoundBooks
  \/ ApplyShouldExtractBooks

SpecFunctions == InitFunctions /\ [][NextFunctions]_vars

----------------------------------------------------------------------------
(* Properties *)


----------------------------------------------------------------------------
(* SmartCoverImage, as BookCard and BookDetail use it: coverUrls is the    *)
(* book's coverUrls and fallbackCover the book's cover.  subject is the    *)
(* book shown; result is the mounted component: its two states, what its   *)
(* last render returned (img, src), whether the image of src has loaded,   *)
(* and for the book shown the URLs the <img> has requested and those whose *)
(* request ended in onError.                                               *)

(* [...(coverUrls || []), ...(fallbackCover ? [fallbackCover] : [])].filter(Boolean) *)
allUrls(book) ==
  SelectSeq((IF Truthy(book.coverUrls) THEN book.coverUrls.v ELSE <<>>)
              \o (IF Truthy(book.cover) THEN <<book.cover.v>> ELSE <<>>),
            LAMBDA u : u # "")

(* one render with the states currentUrlIndex and hasError, after the      *)
(* render described by before: the placeholder, or <img src={currentUrl}>, *)
(* which requests src when src is set to another URL than it had           *)
SmartCoverImage(book, currentUrlIndex, hasError, before) ==
  \E urls \in {allUrls(book)} :
    \E img \in {Len(urls) # 0 /\ ~hasError} :
      \E src \in {IF img /\ currentUrlIndex < Len(urls)
                  THEN Str(urls[currentUrlIndex + 1]) ELSE Undefined} :
        \E fresh \in {src # Undefined /\ src # before.src} :
          result' = [t |-> "SmartCoverImage", currentUrlIndex |-> currentUrlIndex,
                     hasError |-> hasError, img |-> img, src |-> src,
                     loaded |-> IF fresh THEN FALSE ELSE src # Undefined /\ before.loaded,
                     requested |-> IF fresh THEN Append(before.requested, src.v)
                                   ELSE before.requested,
                     failed |-> before.failed]

(* the books of the catalog search and of the chat's search *)
CoverBooks ==
  {[t |-> "book", coverUrls |-> b.coverUrls, cover |-> b.cover] :
     b \in {processedBooks(doc) : doc \in CatalogDocs} \cup {DocToBook(DocDeepWork)}}

(* useState(0), useState(false) and the first render *)
InitCover ==
  /\ day = 1
  /\ usageTableExists = TRUE
  /\ messagesTableExists = TRUE
  /\ chat_usage = {}
  /\ chat_messages = {}
  /\ clock = 1
  /\ user = Me
  /\ Mounted
  /\ opensLeft = 0
  /\ turnsLeft = 0
  /\ callsLeft = 0
  /\ subject \in CoverBooks
  /\ \E urls \in {allUrls(subject)} :
       result = [t |-> "SmartCoverImage", currentUrlIndex |-> 0, hasError |-> FALSE,
                 img |-> Len(urls) # 0,
                 src |-> IF Len(urls) # 0 THEN Str(urls[1]) ELSE Undefined,
                 loaded |-> FALSE,
                 requested |-> IF Len(urls) # 0 THEN <<urls[1]>> ELSE <<>>,
                 failed |-> {}]

(* onError of the <img>: the request of src failed *)
handleImageError ==
  /\ result.img /\ result.src # Undefined /\ ~result.loaded
  /\ \E before \in {[result EXCEPT !.failed = result.failed \cup {result.src.v}]} :
       \E nextIndex \in {result.currentUrlIndex + 1} :
         IF nextIndex < Len(allUrls(subject))
         THEN SmartCoverImage(subject, nextIndex, result.hasError, before)
         ELSE SmartCoverImage(subject, result.currentUrlIndex, TRUE, before)
  /\ UNCHANGED <<storeVars, chatVars, subject>>

(* onLoad of the <img>: if (hasError) setHasError(false) *)
onLoad ==
  /\ result.img /\ result.src # Undefined /\ ~result.loaded
  /\ result' = [result EXCEPT !.loaded = TRUE, !.hasError = FALSE]
  /\ UNCHANGED <<storeVars, chatVars, subject>>

(* the parent renders the mounted component with another book: the states  *)
(* are kept                                                                *)
ShowBook(book) ==
  /\ book # subject
  /\ subject' = book
  /\ SmartCoverImage(book, result.currentUrlIndex, result.hasError,
                     [result EXCEPT !.requested = <<>>, !.failed = {}])
  /\ UNCHANGED <<storeVars, chatVars>>

NextCover ==
  \/ handleImageError
  \/ onLoad
  \/ \E book \in CoverBooks : ShowBook(book)

SpecCover == InitCover /\ [][NextCover]_vars

(* C1: a message submitted while the store holds a count >= DAILY_LIMIT    *)
(* for the user's current day never reaches the completion service: every *)
(* turn that has called it was submitted with a stored count below the    *)
(* limit.                                                                  *)
C1_CapOnStoredUsage ==
  \A i \in DOMAIN turns :
    turns[i].completionCalls > 0 => turns[i].stored < DAILY_LIMIT

(* C2: at no time are two turns of the session in flight, and a turn in    *)
(* flight keeps isLoading set.                                             *)
C2_TurnsSequential ==
  /\ Len(turns) <= 1
  /\ Len(turns) = 1 => isLoading

(* a turn is in flight and a further submission (text typed, user signed   *)
(* in, another turn still allowed) is there to be ignored                  *)
C2_Witness ==
  /\ Len(turns) = 1
  /\ isLoading /\ isOpen /\ user # Null /\ Trim(input) # ""
  /\ turnsLeft > 0

(* C3: a turn whose completion call failed makes no classifier call, no    *)
(* extraction call and no catalog search.                                  *)
C3_NoExtractionAfterFailure ==
  \A i \in DOMAIN turns :
    turns[i].failed =>
      turns[i].gateCalls = 0 /\ turns[i].extractCalls = 0 /\ turns[i].catalogCalls = 0

(* C4: no search resolves to an error, and once extractAndSearchBooks has  *)
(* returned the turn holds an assistant message with the reply, which is   *)
(* in the transcript, its books being absent or a list.                    *)
C4_ErrorsContained ==
  \A i \in DOMAIN turns :
    /\ \A k \in DOMAIN turns[i].results : turns[i].results[k].t \in {"pending", "array"}
    /\ turns[i].pc \in {"saveAssistantMessage", "updateDailyUsage"} =>
         /\ turns[i].assistantMessage # NullV
         /\ turns[i].assistantMessage.role = "assistant"
         /\ turns[i].assistantMessage.content = turns[i].response
         /\ turns[i].assistantMessage.books.t \in {"undefined", "array"}
         /\ \E j \in DOMAIN messages : messages[j] = turns[i].assistantMessage

(* an error was caught during the searches and the turn has its assistant  *)
(* message                                                                 *)
C4_Witness ==
  \E i \in DOMAIN turns :
    /\ turns[i].caught
    /\ turns[i].catalogCalls > 0
    /\ \E k \in DOMAIN turns[i].results : turns[i].results[k] = Arr(<<>>)
    /\ turns[i].pc = "saveAssistantMessage"

(* C5: the list of books of a turn never has more than 3 entries.          *)
C5_AtMostThreeBooks ==
  \A i \in DOMAIN turns :
    turns[i].assistantMessage # NullV /\ turns[i].assistantMessage.books # Undefined =>
      Len(turns[i].assistantMessage.books.v) <= 3

(* more than 3 candidate titles were found and 3 books came back *)
C5_Witness ==
  \E i \in DOMAIN turns :
    /\ turns[i].found > 3
    /\ turns[i].assistantMessage # NullV
    /\ turns[i].assistantMessage.books # Undefined
    /\ Len(turns[i].assistantMessage.books.v) = 3

(* C6: when the classifier decides NO, the turn makes no extraction call   *)
(* and no catalog search, and its books are empty (the message carries     *)
(* none).                                                                  *)
C6_GateNoSkipsExtraction ==
  \A i \in DOMAIN turns :
    turns[i].shouldSearchBooks = Bool(FALSE) =>
      /\ turns[i].extractCalls = 0
      /\ turns[i].catalogCalls = 0
      /\ turns[i].queries = <<>>
      /\ turns[i].assistantMessage # NullV
      /\ turns[i].assistantMessage.books = Undefined

(* the classifier decided NO on a reply that names books *)
C6_Witness ==
  \E i \in DOMAIN turns :
    /\ turns[i].shouldSearchBooks = Bool(FALSE)
    /\ Includes(turns[i].response, "**\"")
    /\ turns[i].pc = "saveAssistantMessage"

(* C7: when the first store request of the session is answered 42P01, no   *)
(* store request is made after that answer.                                *)
C7_NoRequestAfterMissing ==
  storeLog.firstMissing => ~storeLog.attemptedAfter

(* C8: a checkDailyUsage that follows a successful updateDailyUsage(n)     *)
(* returns n + 1 on the same day, and 0 on another day that has no record. *)
C8_IncrementThenRead ==
  (/\ Len(calls) = 2
   /\ calls[1].op = "updateDailyUsage" /\ calls[1].attempted /\ calls[1].outcome = "ok"
   /\ calls[2].op = "checkDailyUsage" /\ calls[2].attempted /\ calls[2].outcome = "ok")
  => IF calls[2].day = calls[1].day
     THEN calls[2].ret = Num(calls[1].arg.v + 1)
     ELSE calls[2].rows = 0 => calls[2].ret = Num(0)

(* the count was raised from DAILY_LIMIT - 1 over an existing record and   *)
(* read back on the same day                                               *)
C8_Witness ==
  /\ Len(calls) = 2
  /\ calls[1].op = "updateDailyUsage" /\ calls[1].attempted /\ calls[1].outcome = "ok"
  /\ calls[1].rows = 1 /\ calls[1].arg = Num(DAILY_LIMIT - 1)
  /\ calls[2].op = "checkDailyUsage" /\ calls[2].attempted /\ calls[2].outcome = "ok"
  /\ calls[2].day = calls[1].day
  /\ calls[2].ret = Num(DAILY_LIMIT)

(* C9: a successful loadChatHistory returns the HISTORY_LIMIT most recent  *)
(* messages of the user (all of them when there are fewer), oldest first.  *)
C9_MostRecentHistory ==
  (/\ Len(calls) > 0
   /\ calls[Len(calls)].op = "loadChatHistory"
   /\ calls[Len(calls)].attempted /\ calls[Len(calls)].outcome = "ok")
  => LET all == SortByCreatedAt({m \in chat_messages : m.user_id = user})
         from == IF Len(all) > HISTORY_LIMIT THEN Len(all) - HISTORY_LIMIT + 1 ELSE 1
         recent == SubSeq(all, from, Len(all))
     IN calls[Len(calls)].ret = Arr([j \in DOMAIN recent |-> RowToMessage(recent[j])])

(* C10: a loadChatHistory that follows a successful saveChatMessage(m)     *)
(* returns a message with m's id, role, content and books.                 *)
C10_RoundTrip ==
  (/\ Len(calls) = 2
   /\ calls[1].op = "saveChatMessage" /\ calls[1].attempted /\ calls[1].outcome = "ok"
   /\ calls[2].op = "loadChatHistory" /\ calls[2].attempted /\ calls[2].outcome = "ok")
  => LET m == calls[1].arg.v
         SameBooks(a, b) ==
           \/ a = b
           \/ /\ a.t = "array" /\ b.t = "array" /\ Len(a.v) = Len(b.v)
              /\ \A j \in DOMAIN a.v : \A f \in DOMAIN a.v[j] :
                   Get(b.v[j], f) = a.v[j][f]
     IN \E j \in DOMAIN calls[2].ret.v :
          /\ calls[2].ret.v[j].id = m.id
          /\ calls[2].ret.v[j].role = m.role
          /\ calls[2].ret.v[j].content = m.content
          /\ SameBooks(m.books, calls[2].ret.v[j].books)

(* C11: once dailyUsage has reached DAILY_LIMIT in the session, no          *)
(* submission is accepted on that day, and the limit notice is only given  *)
(* on that day: after the date has rolled over submissions are accepted.   *)
C11_BlockedUntilRollover ==
  [][/\ Len(turns') > Len(turns) => capDay # day
     /\ (last' = "toast" /\ last # "toast") => capDay = day]_vars

(* "Daily usage limits (5 recommendations per day)" *)
README_LIMIT == 5

(* C12: the daily limit is 5: no submission is accepted once 5 turns of    *)
(* the day have been counted, in the component and in the store.           *)
C12_LimitOfFive ==
  \A i \in DOMAIN turns :
    ~(turns[i].dailyUsage >= README_LIMIT /\ turns[i].stored >= README_LIMIT)

(* C13: there is at most one usage record per (user, date), and no stored  *)
(* count exceeds DAILY_LIMIT, whatever turns the session has made.         *)
C13_UsageRecordBounded ==
  \A r \in chat_usage :
    /\ r.count <= DAILY_LIMIT
    /\ \A q \in chat_usage : (q.user_id = r.user_id /\ q.date = r.date) => q = r

(* a turn has written the count DAILY_LIMIT for a day after the first, and *)
(* the record of the first day is still there                              *)
C13_Witness ==
  /\ turns = <<>>
  /\ last = "accepted"
  /\ \E r \in chat_usage : r.user_id = Me /\ r.date > 1 /\ r.count = DAILY_LIMIT
  /\ \E r \in chat_usage : r.user_id = Me /\ r.date = 1

(* C14: no step lowers the count stored for a (user, date).                *)
C14_CountMonotonic ==
  [][\A r \in chat_usage : \A q \in chat_usage' :
       (q.user_id = r.user_id /\ q.date = r.date) => q.count >= r.count]_vars

(* every answer the store may give to a request *)
AllStoreOutcomes == StoreOutcomes(TRUE) \cup StoreOutcomes(FALSE)

(* the activation at i makes no request, or its request is not served *)
Unavailable(i, o) ==
  turns[i].user = Null \/ turns[i].isTableMissing \/ o \in {"42P01", "throw"}

(* C15 as stated: whenever updateDailyUsage does not get through to the    *)
(* store, nothing is persisted and the count of the component still goes   *)
(* up by one.                                                              *)
C15_Original ==
  [][\A i \in DOMAIN turns : \A o \in AllStoreOutcomes :
       (UpdateUsage(i, o) /\ (o # "ok" \/ Unavailable(i, o))) =>
         /\ chat_usage' = chat_usage
         /\ dailyUsage' = turns[i].dailyUsage + 1]_vars

(* C15, amended: when the store is unavailable (no request made, table     *)
(* missing, request rejected) nothing is persisted and the count of the    *)
(* component stays at currentCount; when the store answers with another    *)
(* error nothing is persisted either, and the count goes up by one.        *)
C15_UnavailableKeepsCount ==
  [][\A i \in DOMAIN turns : \A o \in AllStoreOutcomes :
       UpdateUsage(i, o) =>
         /\ Unavailable(i, o) =>
              chat_usage' = chat_usage /\ dailyUsage' = turns[i].dailyUsage
         /\ (o = "error" /\ ~Unavailable(i, o)) =>
              chat_usage' = chat_usage /\ dailyUsage' = turns[i].dailyUsage + 1]_vars

(* a turn was completed against a store without tables and the count of    *)
(* the component has not moved                                             *)
C15_Witness ==
  /\ ~usageTableExists
  /\ isTableMissing
  /\ turns = <<>>
  /\ last = "accepted"
  /\ messages # <<>>
  /\ dailyUsage = 0
  /\ chat_usage = {}

(* C16: a turn whose completion call succeeded is counted once, by the     *)
(* step that follows the saving of its assistant message; a turn whose     *)
(* completion call failed is not counted and stores no assistant row.      *)
C16_CountedOncePerSuccess ==
  [][\A i \in DOMAIN turns :
       /\ turns[i].failed =>
            /\ dailyUsage' = dailyUsage
            /\ chat_usage' = chat_usage
            /\ chat_messages' = chat_messages
       /\ (~turns[i].failed /\ UpdateUsage(i, "ok")) =>
            /\ dailyUsage' = turns[i].dailyUsage + 1
            /\ turns[i].assistantMessage # NullV]_vars

(* the candidate URL of an identifier x of the given kind *)
CoverUrl(kind, x) ==
  "https://covers.openlibrary.org/b/" \o kind \o "/" \o x \o "-L.jpg?default=false"

C18_CoverIsFirstCandidate ==
  result.t \in {"processedBooks", "fetchRecommendations", "searchBooksFromOpenLibrary"} =>
    /\ result.v.coverUrls.t = "array" => Len(result.v.coverUrls.v) > 0
    /\ (Truthy(result.v.cover) /\ result.v.coverUrls.t = "array")
         => result.v.cover.v = result.v.coverUrls.v[1]

(* the search hook has normalised a record with several cover candidates *)
C18_Witness ==
  /\ result.t = "processedBooks"
  /\ result.v.coverUrls.t = "array"
  /\ Len(result.v.coverUrls.v) > 1
  /\ result.v.cover = Str(result.v.coverUrls.v[1])


(* C19: with the extraction call unavailable, every occurrence of            *)
(* **"Title" by Author** in the reply whose title has at least 3 characters  *)
(* puts "Title Author" into the candidate set, and an occurrence whose       *)
(* title is shorter adds nothing.                                            *)
C19_PatternFallback ==
  result.t = "foundBooks" =>
    \A k \in DOMAIN subject.pairs :
      LET candidate == subject.pairs[k].title \o " " \o subject.pairs[k].author
      IN (\E j \in DOMAIN result.v : result.v[j] = candidate)
           <=> Len(subject.pairs[k].title) >= 3

(* a reply naming a book with a three-letter title and one with a           *)
(* two-letter title has been scanned                                        *)
C19_Witness ==
  /\ result.t = "foundBooks"
  /\ \E k \in DOMAIN subject.pairs : subject.pairs[k].title = "She"
  /\ \E k \in DOMAIN subject.pairs : subject.pairs[k].title = "It"
  /\ result.v = <<"She H. Rider Haggard">>


(* the state of the conversation controller, from where handleSendMessage  *)
(* stands: waiting for the completion, or past it and until                *)
(* setIsLoading(false)                                                     *)
Phase ==
  IF turns = <<>> THEN "Idle"
  ELSE IF turns[1].pc \in {"saveUserMessage", "callGeminiAPI"} THEN "AwaitingModel"
  ELSE "AwaitingExtraction"

(* C20: every accepted submission goes Idle -> AwaitingModel ->             *)
(* AwaitingExtraction -> Idle and no other way, isLoading is true exactly   *)
(* while it is under way, and when every external call eventually returns   *)
(* or fails it comes back to Idle with isLoading false, whatever the calls  *)
(* answered.                                                                *)
C20_TurnReturnsToIdle ==
  /\ [](isLoading <=> Phase # "Idle")
  /\ [][Phase' # Phase =>
          <<Phase, Phase'>> \in {<<"Idle", "AwaitingModel">>,
                                 <<"AwaitingModel", "AwaitingExtraction">>,
                                 <<"AwaitingExtraction", "Idle">>}]_vars
  /\ (Phase = "AwaitingModel" ~> Phase = "AwaitingExtraction")
  /\ (isLoading ~> (~isLoading /\ Phase = "Idle"))

(* a turn whose completion call failed and whose classifier call failed is  *)
(* back in Idle                                                             *)
C20_Witness ==
  /\ last = "accepted"
  /\ turns = <<>>
  /\ ~isLoading
  /\ Len(messages) = 2
  /\ messages[2].content = FallbackUnavailable


(* C21: the searches of a turn are made for the first 3 candidates in       *)
(* insertion order, one per candidate; each keeps at most its first result; *)
(* whatever the order in which they complete, the books of the turn are the *)
(* results in candidate order, a search without a hit adding nothing.  The  *)
(* queries are looked at when the searches start and each result when it    *)
(* settles.                                                                 *)
C21_CandidateOrder ==
  \A i \in DOMAIN turns :
    LET a == turns[i]
        hits == {k \in DOMAIN a.results : a.results[k].t = "array" /\ a.results[k].v # <<>>}
        books == IF a.assistantMessage = NullV \/ a.assistantMessage.books = Undefined
                 THEN <<>> ELSE a.assistantMessage.books.v
    IN /\ Len(a.queries) <= 3
       /\ a.catalogCalls = Len(a.queries)
       /\ (a.pc = "searching" /\ a.order = <<>>) =>
            /\ Len(a.queries) = (IF a.found < 3 THEN a.found ELSE 3)
            /\ \E e \in ExtractionOutcomes :
                 /\ Len(Candidates(i, e)) = a.found
                 /\ a.queries = SubSeq(Candidates(i, e), 1, Len(a.queries))
       /\ \A k \in DOMAIN a.results :
            a.results[k] # Pending => Len(a.results[k].v) <= 1
       /\ \A k \in DOMAIN a.results :
            (a.order # <<>> /\ k = a.order[Len(a.order)] /\ a.pc # "updateDailyUsage") =>
              /\ a.results[k] # Pending
              /\ \E responses \in Responses(a.queries[k]) :
                   /\ a.results[k].v = <<>> => searchBooksFromOpenLibrary(responses).v = <<>>
                   /\ a.results[k].v # <<>> =>
                        /\ searchBooksFromOpenLibrary(responses).v # <<>>
                        /\ a.results[k].v[1] = searchBooksFromOpenLibrary(responses).v[1]
       /\ (a.catalogCalls > 0 /\ a.pc \in {"saveAssistantMessage", "updateDailyUsage"}) =>
            /\ Len(books) = Cardinality(hits)
            /\ \A k \in hits :
                 books[Cardinality({j \in hits : j <= k})] = a.results[k].v[1]

(* three searches completed last to first, the second without a hit, and    *)
(* the books are the first and the third candidate's, in that order         *)
C21_Witness ==
  \E i \in DOMAIN turns :
    /\ turns[i].pc = "saveAssistantMessage"
    /\ turns[i].found > 3
    /\ turns[i].order = <<3, 2, 1>>
    /\ turns[i].results[2] = Arr(<<>>)
    /\ turns[i].assistantMessage.books # Undefined
    /\ Len(turns[i].assistantMessage.books.v) = 2
    /\ turns[i].assistantMessage.books.v[1] = turns[i].results[1].v[1]
    /\ turns[i].assistantMessage.books.v[2] = turns[i].results[3].v[1]
    /\ turns[i].results[1].v[1] # turns[i].results[3].v[1]


(* C22 as stated: the gate is positive exactly when the classifier call     *)
(* succeeds and its reply, trimmed and upper-cased, is "YES"; when the call *)
(* fails, exactly when the reply holds "recommend" in any letter case, or   *)
(* the markdown pattern **"Title" by Author**, or the user's message holds  *)
(* "books like".                                                            *)
C22_Original ==
  result.t = "shouldExtractBooks" =>
    (result.v <=> IF subject.ok THEN subject.yes
                  ELSE subject.recommend \/ subject.pattern \/ subject.booksLikeAnyCase)

(* C22: the gate is positive exactly when the classifier call succeeds and  *)
(* its reply, trimmed and upper-cased, is "YES"; when the call fails,       *)
(* exactly when the reply holds "recommend" in any letter case, or the      *)
(* three characters **" (with or without a title and author behind them),   *)
(* or the user's message holds "books like" in any letter case.             *)
C22_GateDecision ==
  result.t = "shouldExtractBooks" =>
    (result.v <=> IF subject.ok THEN subject.yes
                  ELSE subject.recommend \/ subject.opening \/ subject.booksLikeAnyCase)

(* the classifier answered " yes\n" and the gate is positive *)
C22_Witness ==
  /\ result.t = "shouldExtractBooks"
  /\ subject.g = [ok |-> TRUE, text |-> " yes\n"]
  /\ result.v = TRUE


(* C23: no two entries of the candidate set differ only by letter case or   *)
(* surrounding white space.                                                 *)
C23_DedupedByNormalizedString ==
  result.t = "foundBooks" =>
    \A j, k \in DOMAIN result.v :
      j # k => ToLowerCase(Trim(result.v[j])) # ToLowerCase(Trim(result.v[k]))


(* C24: a submit with empty or white-space input, with no signed-in user,   *)
(* or with the in-memory count at the cap changes nothing: transcript,      *)
(* input, isLoading, usage counter and store stay as they are and no        *)
(* activation, hence no external call, is started; the notice is raised     *)
(* only in the cap case.                                                    *)
C24_RejectedSubmitChangesNothing ==
  [][(handleSendMessage
        /\ (Trim(input) = "" \/ user = Null \/ dailyUsage >= DAILY_LIMIT)) =>
       /\ UNCHANGED <<messages, input, isLoading, dailyUsage, isTableMissing, storeVars,
                      turns, inits, storeLog>>
       /\ last' # last =>
            /\ last' = "toast"
            /\ Trim(input) # "" /\ user # Null /\ dailyUsage >= DAILY_LIMIT]_vars

(* the notice has been raised for a typed message with the count at the cap *)
C24_Witness ==
  /\ last = "toast"
  /\ Trim(input) # ""
  /\ user # Null
  /\ dailyUsage >= DAILY_LIMIT
  /\ ~isLoading
  /\ turns = <<>>


(* C25: when a submission is accepted, the context of its completion call   *)
(* is the last 5 messages (all of them when there are fewer) of the         *)
(* transcript as it was before the user's message was appended: it has at   *)
(* most 5 entries and the user's message, which goes to the end of the      *)
(* transcript, is not among the messages it was taken from.                 *)
C25_ContextIsLastFiveBefore ==
  [][Len(turns') > Len(turns) =>
       LET turn == turns'[Len(turns')]
           n == IF Len(messages) < 5 THEN Len(messages) ELSE 5
       IN /\ Len(turn.context) = n
          /\ \A j \in 1..n :
               /\ turn.context[j].role = messages[Len(messages) - n + j].role
               /\ turn.context[j].content = messages[Len(messages) - n + j].content
          /\ \A j \in DOMAIN messages : messages[j].id # turn.userMessage.id
          /\ messages' = Append(messages, turn.userMessage)]_vars

(* a turn in flight was accepted on a transcript of more than 5 messages    *)
(* and its context is the 5 before its own message                          *)
C25_Witness ==
  \E i \in DOMAIN turns :
    /\ turns[i].pc = "callGeminiAPI"
    /\ Len(turns[i].context) = 5
    /\ Len(messages) > 6
    /\ messages[Len(messages)] = turns[i].userMessage
    /\ turns[i].context[5].content = messages[Len(messages) - 1].content
    /\ turns[i].context[5].role = "assistant"


(* C26: within one day the completion service is called for at most         *)
(* DAILY_LIMIT turns of the user: the turns whose reply is in the           *)
(* transcript and the turn in flight that has made its call.                *)
C26_CompletionCallsCapped ==
  Cardinality({j \in DOMAIN messages : messages[j].role = "assistant"})
    + Cardinality({i \in DOMAIN turns : turns[i].completionCalls > 0
                                          /\ turns[i].assistantMessage = NullV})
    <= DAILY_LIMIT


(* C27: a message of the in-memory transcript stays in it at every later    *)
(* step of the session, and a store read made by initializeChat while a     *)
(* turn is in flight leaves the in-memory usage counter as it was.          *)
C27_TranscriptAndCounterKept ==
  [][/\ \A j \in DOMAIN messages : \E k \in DOMAIN messages' : messages'[k].id = messages[j].id
     /\ (turns # <<>> /\ \E i \in DOMAIN inits : \E o \in {"ok", "42P01", "error", "throw"} :
                            InitCheckUsage(i, o))
          => dailyUsage' = dailyUsage]_vars


(* C28: isTableMissing is false initially, never goes back to false, goes   *)
(* to true only in a step whose store request is answered 42P01, and once   *)
(* it is true no step makes a store request.                                *)
C28_FlagMonotoneAndDisabling ==
  /\ ~isTableMissing
  /\ [][/\ isTableMissing => isTableMissing'
        /\ (~isTableMissing /\ isTableMissing') => (~storeLog.reported /\ storeLog'.reported)
        /\ isTableMissing => storeLog'.attemptedAfter = storeLog.attemptedAfter]_vars


(* C29: the books attached to one assistant message have pairwise distinct  *)
(* ids.                                                                     *)
C29_BooksDistinct ==
  \A i \in DOMAIN turns :
    (turns[i].assistantMessage # NullV /\ turns[i].assistantMessage.books # Undefined) =>
      \A j, k \in DOMAIN turns[i].assistantMessage.books.v :
        j # k => turns[i].assistantMessage.books.v[j].id # turns[i].assistantMessage.books.v[k].id


(* C30: for the book shown, the URLs requested are consecutive candidates   *)
(* in priority order and no URL is requested twice; while an image is       *)
(* rendered the index is below the number of candidates; the placeholder is *)
(* rendered only when there is no candidate or every candidate has failed.  *)
C30_CoverFailover ==
  result.t = "SmartCoverImage" =>
    \E urls \in {allUrls(subject)} :
      /\ \E k \in 1..(Len(urls) + 1) :
           result.requested = SubSeq(urls, k, k + Len(result.requested) - 1)
      /\ \A j, k \in DOMAIN result.requested :
           j # k => result.requested[j] # result.requested[k]
      /\ result.img => result.currentUrlIndex < Len(urls)
      /\ ~result.img =>
           \/ Len(urls) = 0
           \/ \A j \in DOMAIN urls : urls[j] \in result.failed

====
